---- MODULE Spec2Model ----
(***************************************************************************)
(* SelfRay-UI: the repository of inbounds, clients and settings, the       *)
(* synthesis of the xray configuration document, the supervisor of the     *)
(* xray process and the quota/expiry reconciler (app/main.py).             *)
(*                                                                         *)
(* Every request handler is an "async def" without an await inside it and  *)
(* the reconciler pass runs between two awaits of its loop, so each of     *)
(* them is one atomic step of the event loop: one action here.            *)
(***************************************************************************)
EXTENDS Integers, Sequences, FiniteSets, TLC

VARIABLES
    inbounds,         \* table inbounds: id -> row
    clients,          \* table clients: id -> row (ids number the random tokens in insertion order)
    settings,         \* table settings: key -> value (a string)
    next_inbound_id,  \* the AUTOINCREMENT sequence of inbounds
    next_client_id,   \* the number of client tokens drawn so far, plus one
    xray_process,     \* the module-level handle: NoProcess or the pid of the Popen object
    alive,            \* the engine processes that are running
    bin_exists,       \* XRAY_BIN.exists()
    config_file,      \* XRAY_CONFIG_PATH: NoFile or the document last written
    launched,         \* history: what XRAY_CONFIG_PATH held when the tracked process was spawned
    signals,          \* the signals the last call into the supervisor sent to the engine
    hung,             \* the running engine does not end on SIGTERM within the grace period
    task,             \* the task of _auto_disable_loop: "sleeping" or "cancelled"
    now,              \* the clock, in ticks
    ev,               \* history: what the last handler did
    _user_states,     \* SelfRayBot._user_states: chat id -> the dict of the conversation
    users,            \* table users: username -> password_hash
    calls,            \* history: what the handler of the last update invoked
    _offset,          \* SelfRayBot._offset
    _running,         \* SelfRayBot._running
    threads,          \* the threads running _poll_loop: thread -> its position in the loop
    updates,          \* the updates Telegram holds; update_id is the index
    confirmed,        \* the highest update_id Telegram has dropped as confirmed
    handled           \* history: update_id -> how many times _handle_update ran on it

vars == <<inbounds, clients, settings, next_inbound_id, next_client_id,
          xray_process, alive, bin_exists, config_file, launched, signals, hung,
          task, now, ev,
          _user_states, users, calls, _offset, _running, threads, updates, confirmed,
          handled>>

dialog == <<_user_states, users, calls>>
polling == <<_offset, _running, threads, updates, confirmed, handled>>
bot == <<dialog, polling>>

db == <<inbounds, clients, settings, next_inbound_id, next_client_id>>
supervisor == <<xray_process, alive, config_file, launched, signals, hung>>

-----------------------------------------------------------------------------
(* Bounds of the model *)

MaxInbounds == 1      \* inbounds ever created
MaxClients == 2       \* clients ever created
MaxNow == 2           \* the clock stops here
TicksPerDay == 1      \* ticks in timedelta(days=1)
UnitsPerGiB == 2      \* traffic units in 1024*1024*1024 bytes
MaxCounter == 1       \* upload and download counters stop here
MaxThreads == 2       \* threads of the bot alive at a time
MaxUpdates == 2       \* updates the chats send

-----------------------------------------------------------------------------
(* Values *)

NoProcess == 0
NoFile == [absent |-> TRUE]

Protocols == {"vless", "vmess", "trojan", "shadowsocks"}
ClientProtocols == {"vless", "vmess", "trojan"}
Ports == {443}
\* a value of secrets.token_hex(3)
Suffixes == {"a1b2c3"}
InboundIds == 1..MaxInbounds
ClientIds == 1..MaxClients

ApiInTag == <<"api-in">>
Tag(protocol, port, suffix) == <<protocol, port, suffix>>
Uuid(n) == <<"uuid", n>>

SetKey(d, k, v) == [x \in (DOMAIN d) \cup {k} |-> IF x = k THEN v ELSE d[x]]

RECURSIVE Rows(_)
Rows(S) ==
    IF S = {} THEN <<>>
    ELSE LET m == CHOOSE x \in S : \A y \in S : x <= y
         IN <<m>> \o Rows(S \ {m})

-----------------------------------------------------------------------------
(* The settings table and the texts stored in it *)

EmptyTable == [x \in {} |-> x]

get_setting(sts, key, default) == IF key \in DOMAIN sts THEN sts[key] ELSE default

set_setting(sts, key, value) == SetKey(sts, key, value)

ApiPorts == {10085, 10086}

\* int(text) of the decimal texts the settings can hold
IntOf(text) == CHOOSE n \in ApiPorts : ToString(n) = text

\* The texts of the JSON-valued settings: the empty string, a text json.loads
\* rejects, and json.dumps(v) of a JSON value v (a list or an object).
EmptyText == [kind |-> "empty"]
BrokenText == [kind |-> "broken"]
json_dumps(v) == [kind |-> "json", val |-> v]
JList(items) == [t |-> "list", items |-> items]
JObject(fields) == [t |-> "object", fields |-> fields]

\* the items of a list are objects, written as records, or strings
JString(text) == [t |-> "string", text |-> text]
IsDict(v) == ~("t" \in DOMAIN v /\ v.t = "string")

\* json.loads: ok = FALSE when it raises
json_loads(text) ==
    IF text.kind = "json" THEN [ok |-> TRUE, val |-> text.val]
    ELSE [ok |-> FALSE, val |-> JList(<<>>)]

\* bool(v) of a JSON value
Truthy(v) == IF v.t = "list" THEN v.items # <<>> ELSE DOMAIN v.fields # {}

WhitelistRule == [type |-> "field", domain |-> <<"full:example.com">>, outboundTag |-> "direct"]

-----------------------------------------------------------------------------
(* generate_xray_config: the document synthesized from the tables *)

ApiRule == [type |-> "field", inboundTag |-> <<ApiInTag>>, outboundTag |-> "api"]
BittorrentRule == [type |-> "field", protocol |-> <<"bittorrent">>, outboundTag |-> "blocked"]
DirectOutbound == [tag |-> "direct", protocol |-> "freedom"]
BlockedOutbound == [tag |-> "blocked", protocol |-> "blackhole"]

ApiInbound(api_port) ==
    [tag |-> ApiInTag, listen |-> "127.0.0.1", port |-> api_port,
     protocol |-> "dokodemo-door", settings |-> [address |-> "127.0.0.1"]]

\* the VLESS object under every protocol
ClientObjectVless(protocol, c) == [id |-> c.uuid, email |-> c.email, flow |-> c.flow]

\* a client object that carries the expiry and the quota of its row
ClientObjectWithLimits(protocol, c) ==
    [id |-> c.uuid, email |-> c.email, flow |-> c.flow,
     expiry_time |-> c.expiry_time, traffic_limit |-> c.traffic_limit]

\* lines 162-167: the object a client row becomes under each protocol
ClientObject(protocol, c) ==
    CASE protocol = "vless" -> [id |-> c.uuid, email |-> c.email, flow |-> c.flow]
      [] protocol = "vmess" -> [id |-> c.uuid, email |-> c.email, alterId |-> 0]
      [] protocol = "trojan" -> [password |-> c.uuid, email |-> c.email]

\* the query without its enabled=1 condition
ClientRowsAll(cls, inbound_id) == Rows({c \in DOMAIN cls : cls[c].inbound_id = inbound_id})

\* lines 151-153: SELECT * FROM clients WHERE inbound_id=? AND enabled=1
ClientRows(cls, inbound_id) ==
    Rows({c \in DOMAIN cls : cls[c].inbound_id = inbound_id /\ cls[c].enabled})

\* the query without its enabled=1 condition
InboundRowsAll(ibs) == Rows(DOMAIN ibs)

\* line 147: SELECT * FROM inbounds WHERE enabled=1
InboundRows(ibs) == Rows({i \in DOMAIN ibs : ibs[i].enabled})

\* lines 150-185: one enabled inbound row and its client rows
InboundConfig(ibs, cls, i) ==
    LET ib == ibs[i]
        clients_rows == ClientRows(cls, i)
        client_list == [k \in DOMAIN clients_rows |->
                           ClientObject(ib.protocol, cls[clients_rows[k]])]
        stored == ib.settings
    IN  [tag |-> ib.tag,
         listen |-> ib.listen,
         port |-> ib.port,
         protocol |-> ib.protocol,
         settings |-> IF ib.protocol \in ClientProtocols
                      THEN SetKey(stored, "clients", client_list)
                      ELSE stored,
         streamSettings |-> ib.stream_settings,
         sniffing |-> ib.sniffing]

\* the rules of the list, before the baseline rules
RoutingRulesFirst(sts) ==
    LET block_bt == get_setting(sts, "block_bittorrent", "true") = "true"
        custom_routing == get_setting(sts, "custom_routing_rules", EmptyText)
        extra == json_loads(custom_routing)
    IN  (IF custom_routing # EmptyText /\ extra.ok /\ extra.val.t = "list"
         THEN extra.val.items ELSE <<>>)
        \o <<ApiRule>>
        \o (IF block_bt THEN <<BittorrentRule>> ELSE <<>>)

\* the routing rules with the bittorrent rule whatever the setting says
RoutingRulesBlocking(sts) ==
    LET custom_routing == get_setting(sts, "custom_routing_rules", EmptyText)
        extra == json_loads(custom_routing)
    IN  <<ApiRule, BittorrentRule>>
        \o (IF custom_routing # EmptyText /\ extra.ok /\ extra.val.t = "list"
            THEN extra.val.items ELSE <<>>)

\* lines 191-206: the routing rules
RoutingRules(sts) ==
    LET block_bt == get_setting(sts, "block_bittorrent", "true") = "true"
        custom_routing == get_setting(sts, "custom_routing_rules", EmptyText)
        extra == json_loads(custom_routing)
    IN  <<ApiRule>>
        \o (IF block_bt THEN <<BittorrentRule>> ELSE <<>>)
        \o (IF custom_routing # EmptyText /\ extra.ok /\ extra.val.t = "list"
            THEN extra.val.items ELSE <<>>)

\* a dns section that is dropped when custom_dns does not parse
DnsConfigDropped(sts) ==
    LET custom_dns == get_setting(sts, "custom_dns", EmptyText)
        parsed == json_loads(custom_dns)
    IN  IF custom_dns # EmptyText /\ parsed.ok THEN parsed.val ELSE JObject(EmptyTable)

\* lines 208-214: the dns section, an empty object when there is none
DnsConfig(sts) ==
    LET custom_dns == get_setting(sts, "custom_dns", EmptyText)
        parsed == json_loads(custom_dns)
    IN  IF custom_dns = EmptyText THEN JObject(EmptyTable)
        ELSE IF parsed.ok THEN parsed.val
        ELSE JObject([servers |-> <<"1.1.1.1", "8.8.8.8">>])

RECURSIVE AppendAll(_, _, _)
\* the loop without its test of the tag
AppendAll(outbounds, extra_ob, existing_tags) ==
    IF extra_ob = <<>> THEN outbounds
    ELSE IF ~IsDict(Head(extra_ob)) THEN outbounds
    ELSE AppendAll(Append(outbounds, Head(extra_ob)), Tail(extra_ob), existing_tags)

RECURSIVE AppendNew(_, _, _)
\* lines 245-249: append the extra outbounds whose tag (None when the object has
\* none) is not a baseline tag; ob.get raises on an item that is not an object,
\* which ends the loop at line 248 with the outbounds appended so far
AppendNew(outbounds, extra_ob, existing_tags) ==
    IF extra_ob = <<>> THEN outbounds
    ELSE IF ~IsDict(Head(extra_ob)) THEN outbounds
    ELSE AppendNew(IF "tag" \notin DOMAIN Head(extra_ob)
                      \/ Head(extra_ob).tag \notin existing_tags
                   THEN Append(outbounds, Head(extra_ob)) ELSE outbounds,
                   Tail(extra_ob), existing_tags)

\* lines 233-249: the outbounds
Outbounds(sts) ==
    LET base == <<DirectOutbound, BlockedOutbound>>
        custom_outbounds == get_setting(sts, "custom_outbounds", EmptyText)
        extra_ob == json_loads(custom_outbounds)
        existing_tags == {base[k].tag : k \in DOMAIN base}
    IN  IF custom_outbounds # EmptyText /\ extra_ob.ok /\ extra_ob.val.t = "list"
        THEN AppendNew(base, extra_ob.val.items, existing_tags)
        ELSE base

\* a document that keeps the outbounds of the file on disk
XrayConfigOverFile(ibs, cls, sts) ==
    [inbounds |-> <<ApiInbound(10085)>>,
     outbounds |-> IF config_file = NoFile
                   THEN <<DirectOutbound, BlockedOutbound>>
                   ELSE Append(config_file.outbounds, DirectOutbound),
     routing |-> [rules |-> <<ApiRule>>]]

\* lines 146-252: the dict config, from the rows and the settings
XrayConfig(ibs, cls, sts) ==
    LET inbounds_rows == InboundRows(ibs)
        xray_inbounds == [k \in DOMAIN inbounds_rows |->
                             InboundConfig(ibs, cls, inbounds_rows[k])]
        api_port == IntOf(get_setting(sts, "xray_api_port", "10085"))
        log_level == get_setting(sts, "xray_log_level", "warning")
        dns_config == DnsConfig(sts)
        config == [log |-> [loglevel |-> log_level],
                   api |-> [tag |-> "api", services |-> <<"StatsService">>],
                   stats |-> EmptyTable,
                   policy |-> [system |-> [statsInboundUplink |-> TRUE,
                                           statsInboundDownlink |-> TRUE]],
                   inbounds |-> <<ApiInbound(api_port)>> \o xray_inbounds,
                   outbounds |-> Outbounds(sts),
                   routing |-> [rules |-> RoutingRules(sts)]]
    IN  IF Truthy(dns_config) THEN SetKey(config, "dns", dns_config) ELSE config

\* the document returned and the file left alone
generate_xray_config_pure(file, ibs, cls, sts) ==
    [config |-> XrayConfig(ibs, cls, sts), file |-> file, raised |-> FALSE]

\* line 155: json.loads(ib["settings"]) raises on the settings column of an
\* enabled inbound that is not JSON
SettingsMalformed(ibs) ==
    \E k \in DOMAIN InboundRows(ibs) : ibs[InboundRows(ibs)[k]].settings = BrokenText

\* lines 145-257: [config: the document returned, file: XRAY_CONFIG_PATH
\* afterwards, raised: an exception left the function]; lines 255-256 write the
\* document over the file, which a json.loads that raised before never reaches
generate_xray_config(file, ibs, cls, sts) ==
    LET config == XrayConfig(ibs, cls, sts)
    IN  IF SettingsMalformed(ibs)
        THEN [config |-> config, file |-> file, raised |-> TRUE]
        ELSE [config |-> config, file |-> config, raised |-> FALSE]

-----------------------------------------------------------------------------
(* The supervisor of the xray process *)

SupState ==
    [proc |-> xray_process, alive |-> alive, file |-> config_file,
     launched |-> launched, spawned |-> FALSE, signals |-> <<>>, hung |-> hung]

\* subprocess.Popen: the pid of the new process
NewPid(running) == CHOOSE p \in 1..(Cardinality(running) + 1) : p \notin running

\* stop_xray that kills at once, without the SIGTERM and the grace period
stop_xray_kill(s) ==
    IF s.proc # NoProcess /\ s.proc \in s.alive
    THEN [s EXCEPT !.proc = NoProcess, !.alive = s.alive \ {s.proc},
                   !.signals = Append(s.signals, "kill"), !.hung = FALSE,
                   !.launched = NoFile]
    ELSE [s EXCEPT !.proc = NoProcess, !.launched = NoFile]

\* lines 283-292: a tracked process that has not ended (poll() is None) gets
\* terminate(); when wait(timeout=5) runs out it gets kill(); the handle is
\* cleared in every case
stop_xray(s) ==
    IF s.proc # NoProcess /\ s.proc \in s.alive
    THEN [s EXCEPT !.proc = NoProcess, !.alive = s.alive \ {s.proc},
                   !.signals = s.signals \o (IF s.hung THEN <<"terminate", "kill">>
                                                       ELSE <<"terminate">>),
                   !.hung = FALSE, !.launched = NoFile]
    ELSE [s EXCEPT !.proc = NoProcess, !.launched = NoFile]

\* start_xray that keeps the handle it had when the spawn fails
start_xray_keep(s, ibs, cls, sts, spawn_ok) ==
    LET stopped == stop_xray(s)
        synth == generate_xray_config(stopped.file, ibs, cls, sts)
        written == [stopped EXCEPT !.file = synth.file]
        pid == NewPid(stopped.alive)
    IN  IF ~bin_exists
        THEN [sup |-> [stopped EXCEPT !.proc = s.proc], ok |-> FALSE, synth |-> FALSE,
              raised |-> FALSE]
        ELSE IF synth.raised
        THEN [sup |-> stopped, ok |-> FALSE, synth |-> FALSE, raised |-> TRUE]
        ELSE IF spawn_ok
        THEN [sup |-> [written EXCEPT !.proc = pid, !.alive = @ \cup {pid},
                                      !.spawned = TRUE],
              ok |-> TRUE, synth |-> TRUE, raised |-> FALSE]
        ELSE [sup |-> [written EXCEPT !.proc = s.proc], ok |-> FALSE, synth |-> TRUE,
              raised |-> FALSE]

\* start_xray that spawns the engine on the file it finds and writes the new
\* document afterwards
start_xray_spawn_first(s, ibs, cls, sts, spawn_ok) ==
    LET stopped == stop_xray(s)
        synth == generate_xray_config(stopped.file, ibs, cls, sts)
        written == [stopped EXCEPT !.file = synth.file]
        pid == NewPid(stopped.alive)
    IN  IF ~bin_exists
        THEN [sup |-> stopped, ok |-> FALSE, synth |-> FALSE, raised |-> FALSE]
        ELSE IF synth.raised
        THEN [sup |-> stopped, ok |-> FALSE, synth |-> FALSE, raised |-> TRUE]
        ELSE IF spawn_ok
        THEN [sup |-> [written EXCEPT !.proc = pid, !.alive = @ \cup {pid},
                                      !.launched = stopped.file],
              ok |-> TRUE, synth |-> TRUE, raised |-> FALSE]
        ELSE [sup |-> written, ok |-> FALSE, synth |-> TRUE, raised |-> FALSE]

\* lines 264-280: [sup: the supervisor afterwards, ok: the value returned,
\* synth: generate_xray_config wrote the document, raised: an exception left
\* the function]. generate_xray_config() is called at line 270, before the try
\* block of lines 271-280, so what it raises leaves start_xray; what Popen
\* raises is caught and the handle stays None
start_xray(s, ibs, cls, sts, spawn_ok) ==
    LET stopped == stop_xray(s)
        synth == generate_xray_config(stopped.file, ibs, cls, sts)
        written == [stopped EXCEPT !.file = synth.file]
        pid == NewPid(stopped.alive)
    IN  IF ~bin_exists
        THEN [sup |-> stopped, ok |-> FALSE, synth |-> FALSE, raised |-> FALSE]
        ELSE IF synth.raised
        THEN [sup |-> stopped, ok |-> FALSE, synth |-> FALSE, raised |-> TRUE]
        ELSE IF spawn_ok
        THEN [sup |-> [written EXCEPT !.proc = pid, !.alive = @ \cup {pid},
                                      !.spawned = TRUE],
              ok |-> TRUE, synth |-> TRUE, raised |-> FALSE]
        ELSE [sup |-> written, ok |-> FALSE, synth |-> TRUE, raised |-> FALSE]

\* restart_xray that starts the new process before it stops the old one
restart_xray_overlap(s, ibs, cls, sts, spawn_ok) ==
    LET pid == NewPid(s.alive)
        synth == generate_xray_config(s.file, ibs, cls, sts)
    IN  IF bin_exists /\ spawn_ok /\ ~synth.raised
        THEN [sup |-> [s EXCEPT !.proc = pid, !.alive = s.alive \cup {pid},
                                !.file = synth.file, !.spawned = TRUE],
              ok |-> TRUE, synth |-> TRUE, raised |-> FALSE]
        ELSE start_xray(stop_xray(s), ibs, cls, sts, spawn_ok)

\* restart_xray that reports success whatever start_xray returned
restart_xray_true(s, ibs, cls, sts, spawn_ok) ==
    [start_xray(stop_xray(s), ibs, cls, sts, spawn_ok) EXCEPT !.ok = TRUE]

\* lines 295-297
restart_xray(s, ibs, cls, sts, spawn_ok) == start_xray(stop_xray(s), ibs, cls, sts, spawn_ok)

\* a status that looks at the handle only
is_xray_tracked == xray_process # NoProcess

\* lines 300-301
is_xray_running == xray_process # NoProcess /\ xray_process \in alive

SetSupervisor(s) ==
    /\ xray_process' = s.proc
    /\ alive' = s.alive
    /\ config_file' = s.file
    \* Popen at lines 272-275 hands the path of the file just written to the process
    /\ launched' = IF s.spawned THEN s.file ELSE s.launched
    /\ signals' = s.signals
    /\ hung' = s.hung

\* What a handler did: its name, the HTTP status of its answer, the restart_xray()
\* calls it made, whether one of them synthesized the document, the commits it
\* made and the clients it disabled; success is the "success" of the answer,
\* which only the handlers of /api/xray/start and /api/xray/restart compute.
Event(op, status, restarts, synth, commits, disabled) ==
    [op |-> op, status |-> status, restarts |-> restarts, synth |-> synth,
     commits |-> commits, disabled |-> disabled, success |-> TRUE]

\* a handler that calls restart_xray() before it writes the tables
RestartBeforeCommit(op, commits, spawn_ok) ==
    LET r == restart_xray(SupState, inbounds, clients, settings, spawn_ok)
    IN  /\ SetSupervisor(r.sup)
        /\ ev' = Event(op, IF r.raised THEN 500 ELSE 200, 1, r.synth, commits, {})

\* a handler that writes the tables and then calls restart_xray() once
CommitAndRestart(op, commits, spawn_ok) ==
    LET r == restart_xray(SupState, inbounds', clients', settings', spawn_ok)
    IN  /\ SetSupervisor(r.sup)
        /\ ev' = Event(op, IF r.raised THEN 500 ELSE 200, 1, r.synth, commits, {})

\* a handler that answers with an error before it wrote anything
Refuse(op, status) ==
    /\ UNCHANGED <<db, supervisor>>
    /\ ev' = Event(op, status, 0, FALSE, 0, {})

-----------------------------------------------------------------------------
(* Inbounds *)

\* lines 907-929
_build_protocol_settings(data) ==
    CASE data.protocol = "vless" ->
             IF data.security = "reality" /\ data.flow # ""
             THEN [clients |-> <<>>, decryption |-> "none", flow |-> data.flow]
             ELSE [clients |-> <<>>, decryption |-> "none"]
      [] data.protocol = "vmess" -> [clients |-> <<>>]
      [] data.protocol = "trojan" -> [clients |-> <<>>]
      [] data.protocol = "shadowsocks" ->
             [method |-> "chacha20-ietf-poly1305", password |-> data.ss_password,
              network |-> "tcp,udp"]

\* lines 304-322: the keys `xray x25519` prints, empty when the binary is not
\* there
_generate_reality_keys ==
    IF bin_exists THEN [priv |-> "x25519-private", pub |-> "x25519-public"]
    ELSE [priv |-> "", pub |-> ""]

\* lines 932-1017, for network tcp without TLS: the Reality block of lines
\* 989-1015 takes the keys of the body, or generates them when one is missing
_build_stream_settings(data) ==
    LET given == data.reality_private_key # "" /\ data.reality_public_key # ""
        keys == IF given
                THEN [priv |-> data.reality_private_key, pub |-> data.reality_public_key]
                ELSE _generate_reality_keys
    IN  IF data.security = "reality"
        THEN [network |-> data.network, security |-> data.security,
              tcpSettings |-> [header |-> [type |-> "none"]],
              realitySettings |->
                  [show |-> FALSE,
                     dest |-> IF data.reality_dest = "" THEN "google.com:443"
                              ELSE data.reality_dest,
                     xver |-> 0,
                   serverNames |-> <<"google.com">>, privateKey |-> keys.priv,
                   shortIds |-> <<"token_hex(4)">>, publicKey |-> keys.pub,
                   fingerprint |-> "chrome"]]
        ELSE [network |-> data.network, security |-> data.security,
              tcpSettings |-> [header |-> [type |-> "none"]]]

\* the InboundCreate body of a request, the other fields at their defaults
InboundCreate(protocol, port, flow, client_name) ==
    [protocol |-> protocol, port |-> port, listen |-> "", remark |-> "",
     network |-> "tcp", security |-> "none", flow |-> flow,
     ss_password |-> "shared-secret", client_name |-> client_name,
     reality_dest |-> "google.com:443", reality_private_key |-> "",
     reality_public_key |-> ""]

\* a row of clients that starts disabled
ClientRowDisabled(inbound_id, n, email, flow, expiry_time, traffic_limit) ==
    [inbound_id |-> inbound_id, uuid |-> Uuid(n), email |-> email, flow |-> flow,
     enabled |-> FALSE, expiry_time |-> expiry_time, traffic_limit |-> traffic_limit,
     upload |-> 0, download |-> 0]

\* lines 83-97: a row of clients as INSERT makes it
ClientRow(inbound_id, n, email, flow, expiry_time, traffic_limit) ==
    [inbound_id |-> inbound_id, uuid |-> Uuid(n), email |-> email, flow |-> flow,
     enabled |-> TRUE, expiry_time |-> expiry_time, traffic_limit |-> traffic_limit,
     upload |-> 0, download |-> 0]

\* an INSERT no constraint stops
TagFree(ibs, tag) == FALSE

\* line 70 and lines 760-769: tag TEXT UNIQUE; the INSERT of a tag that a row
\* carries raises sqlite3.IntegrityError
TagTaken(ibs, tag) == \E i \in DOMAIN ibs : ibs[i].tag = tag

\* lines 746-764: the row of inbounds the INSERT makes
InboundRow(data, suffix) ==
    [tag |-> Tag(data.protocol, data.port, suffix), protocol |-> data.protocol,
     listen |-> data.listen, port |-> data.port,
     settings |-> _build_protocol_settings(data),
     stream_settings |-> _build_stream_settings(data),
     sniffing |-> [enabled |-> TRUE, destOverride |-> <<"http", "tls", "quic">>],
     enabled |-> TRUE, remark |-> data.remark]

\* line 737: a Reality inbound whose body brings no key
NeedsRealityKeys(data) ==
    data.security = "reality" /\ data.reality_private_key = "" /\ data.reality_public_key = ""

\* lines 740-744: the generated keys are put into the body
WithRealityKeys(data) ==
    IF NeedsRealityKeys(data)
    THEN [data EXCEPT !.reality_private_key = _generate_reality_keys.priv,
                      !.reality_public_key = _generate_reality_keys.pub]
    ELSE data

\* lines 737-742: the binary is there and `xray x25519` fails or prints no
\* keys; the creation is answered 400 before anything is written
api_create_inbound_keys_error(data) ==
    /\ NeedsRealityKeys(data)
    /\ bin_exists
    /\ UNCHANGED <<bin_exists, now, bot, task>>
    /\ Refuse("api_create_inbound", 400)

\* lines 735-783
api_create_inbound(data, suffix, spawn_ok) ==
    LET tag == Tag(data.protocol, data.port, suffix)
        row == InboundRow(WithRealityKeys(data), suffix)
        inbound_id == next_inbound_id
        cname == IF data.client_name # "" THEN data.client_name ELSE "default-user"
    IN  /\ UNCHANGED <<settings, bin_exists, now, bot, task>>
        /\ IF NeedsRealityKeys(data) /\ ~bin_exists
           THEN /\ UNCHANGED <<inbounds, clients, next_inbound_id, next_client_id, supervisor>>
                /\ ev' = Event("api_create_inbound", 400, 0, FALSE, 0, {})
           ELSE IF TagTaken(inbounds, tag)
           THEN /\ UNCHANGED <<inbounds, clients, next_inbound_id, next_client_id, supervisor>>
                /\ ev' = Event("api_create_inbound", 400, 0, FALSE, 0, {})
           ELSE /\ inbounds' = SetKey(inbounds, inbound_id, row)
                /\ next_inbound_id' = next_inbound_id + 1
                /\ IF data.protocol # "shadowsocks"
                   THEN /\ clients' = SetKey(clients, next_client_id,
                                ClientRow(inbound_id, next_client_id, cname,
                                          IF data.protocol = "vless" THEN data.flow ELSE "",
                                          0, 0))
                        /\ next_client_id' = next_client_id + 1
                        /\ CommitAndRestart("api_create_inbound", 2, spawn_ok)
                   ELSE /\ UNCHANGED <<clients, next_client_id>>
                        /\ CommitAndRestart("api_create_inbound", 1, spawn_ok)

\* lines 760-779: the INSERT of the inbound is committed at line 765; the storage
\* fails at the INSERT of its first client (line 775) or at the commit of line
\* 779, the exception leaves the handler, restart_xray() is not reached
api_create_inbound_client_error(data, suffix) ==
    /\ data.protocol # "shadowsocks"
    /\ ~TagTaken(inbounds, Tag(data.protocol, data.port, suffix))
    /\ ~(NeedsRealityKeys(data) /\ ~bin_exists)
    /\ inbounds' = SetKey(inbounds, next_inbound_id, InboundRow(WithRealityKeys(data), suffix))
    /\ next_inbound_id' = next_inbound_id + 1
    /\ UNCHANGED <<clients, settings, next_client_id, supervisor, bin_exists, now, bot, task>>
    /\ ev' = Event("api_create_inbound", 500, 0, FALSE, 1, {})

\* a delete of the inbound row alone, without a cascade
api_delete_inbound_row(inbound_id, spawn_ok) ==
    /\ inbounds' = [i \in (DOMAIN inbounds) \ {inbound_id} |-> inbounds[i]]
    /\ UNCHANGED <<clients, settings, next_inbound_id, next_client_id, bin_exists, now, bot, task>>
    /\ CommitAndRestart("api_delete_inbound", 1, spawn_ok)

\* lines 826-834
api_delete_inbound(inbound_id, spawn_ok) ==
    /\ clients' = [c \in {x \in DOMAIN clients : clients[x].inbound_id # inbound_id} |-> clients[c]]
    /\ inbounds' = [i \in (DOMAIN inbounds) \ {inbound_id} |-> inbounds[i]]
    /\ UNCHANGED <<settings, next_inbound_id, next_client_id, bin_exists, now, bot, task>>
    /\ CommitAndRestart("api_delete_inbound", 1, spawn_ok)

\* lines 837-849
api_toggle_inbound(inbound_id, spawn_ok) ==
    /\ UNCHANGED <<bin_exists, now, bot, task>>
    /\ IF inbound_id \notin DOMAIN inbounds
       THEN Refuse("api_toggle_inbound", 404)
       ELSE /\ inbounds' = [inbounds EXCEPT ![inbound_id].enabled = ~inbounds[inbound_id].enabled]
            /\ UNCHANGED <<clients, settings, next_inbound_id, next_client_id>>
            /\ CommitAndRestart("api_toggle_inbound", 1, spawn_ok)

\* an UPDATE that derives the tag again from the protocol and the port
UpdatedInboundRetagged(row, data) ==
    LET new == [k \in DOMAIN row |-> IF k \in DOMAIN data THEN data[k] ELSE row[k]]
    IN  [new EXCEPT !.tag = Tag(new.protocol, new.port, CHOOSE x \in Suffixes : TRUE)]

\* lines 786-792: the fields of the body that are not None
UpdatedInbound(row, data) ==
    [k \in DOMAIN row |-> IF k \in DOMAIN data THEN data[k] ELSE row[k]]

\* lines 795-823: settings is stored as the string of the request, parsed by
\* nobody before generate_xray_config; restart_xray() follows also when the
\* body is empty and nothing was committed
api_update_inbound(inbound_id, data, spawn_ok) ==
    /\ UNCHANGED <<bin_exists, now, bot, task>>
    /\ IF inbound_id \notin DOMAIN inbounds
       THEN Refuse("api_update_inbound", 404)
       ELSE /\ inbounds' = [inbounds EXCEPT ![inbound_id] = UpdatedInbound(@, data)]
            /\ UNCHANGED <<clients, settings, next_inbound_id, next_client_id>>
            /\ CommitAndRestart("api_update_inbound",
                                IF DOMAIN data # {} THEN 1 ELSE 0, spawn_ok)

\* lines 883-894: the client object api_edit_inbound puts into the settings
EditedClientObject(protocol, c) ==
    CASE protocol = "vless" ->
             IF c.flow # "" THEN [id |-> c.uuid, email |-> c.email, flow |-> c.flow]
             ELSE [id |-> c.uuid, email |-> c.email]
      [] protocol = "vmess" -> [id |-> c.uuid, email |-> c.email, alterId |-> 0]
      [] protocol = "trojan" -> [password |-> c.uuid, email |-> c.email]

\* lines 866-904: the second handler declared for PUT /api/inbounds/{inbound_id}
\* (the route is served by api_update_inbound, declared first). It rebuilds
\* settings, stream_settings and sniffing from an InboundCreate body, puts every
\* client row of the inbound into the settings and updates protocol, port,
\* listen, settings, stream_settings, sniffing and remark; tag and enabled are
\* not among the columns of the UPDATE
api_edit_inbound(inbound_id, data, spawn_ok) ==
    LET clients_rows == Rows({c \in DOMAIN clients : clients[c].inbound_id = inbound_id})
        built == _build_protocol_settings(data)
        stored == IF data.protocol \in ClientProtocols
                  THEN SetKey(built, "clients",
                              [k \in DOMAIN clients_rows |->
                                  EditedClientObject(data.protocol, clients[clients_rows[k]])])
                  ELSE built
    IN  /\ UNCHANGED <<bin_exists, now, bot, task>>
        /\ IF inbound_id \notin DOMAIN inbounds
           THEN Refuse("api_edit_inbound", 404)
           ELSE /\ inbounds' = [inbounds EXCEPT ![inbound_id] =
                       [@ EXCEPT !.protocol = data.protocol, !.port = data.port,
                                 !.listen = data.listen, !.settings = stored,
                                 !.stream_settings = _build_stream_settings(data),
                                 !.sniffing = [enabled |-> TRUE,
                                               destOverride |-> <<"http", "tls", "quic">>],
                                 !.remark = data.remark]]
                /\ UNCHANGED <<clients, settings, next_inbound_id, next_client_id>>
                /\ CommitAndRestart("api_edit_inbound", 1, spawn_ok)

-----------------------------------------------------------------------------
(* Clients *)

\* line 1054 and line 1091: the expiry timestamp of expiry_days from now
ExpiryOf(expiry_days) == IF expiry_days > 0 THEN now + expiry_days * TicksPerDay ELSE 0

\* line 1055 and line 1094: int(traffic_limit_gb * 1024 * 1024 * 1024)
TrafficOf(traffic_limit_gb) == traffic_limit_gb * UnitsPerGiB

\* lines 1043-1063
api_add_client(inbound_id, data, spawn_ok) ==
    /\ UNCHANGED <<bin_exists, now, bot, task>>
    /\ IF inbound_id \notin DOMAIN inbounds
       THEN Refuse("api_add_client", 404)
       ELSE /\ clients' = SetKey(clients, next_client_id,
                              ClientRow(inbound_id, next_client_id, data.email, data.flow,
                                        ExpiryOf(data.expiry_days),
                                        TrafficOf(data.traffic_limit_gb)))
            /\ next_client_id' = next_client_id + 1
            /\ UNCHANGED <<inbounds, settings, next_inbound_id>>
            /\ CommitAndRestart("api_add_client", 1, spawn_ok)

\* an UPDATE that sets enabled=1 when the body does not name enabled
UpdatedClientEnabling(row, data) ==
    [k \in DOMAIN row |->
        CASE k = "enabled" -> IF "enabled" \in DOMAIN data THEN data.enabled ELSE TRUE
          [] k = "expiry_time" /\ "expiry_days" \in DOMAIN data -> ExpiryOf(data.expiry_days)
          [] k = "traffic_limit" /\ "traffic_limit_gb" \in DOMAIN data -> TrafficOf(data.traffic_limit_gb)
          [] OTHER -> row[k]]

\* lines 1082-1100: the row after the UPDATE built from the fields that are not None
UpdatedClient(row, data) ==
    [k \in DOMAIN row |->
        CASE k = "enabled" /\ "enabled" \in DOMAIN data -> data.enabled
          [] k = "expiry_time" /\ "expiry_days" \in DOMAIN data -> ExpiryOf(data.expiry_days)
          [] k = "traffic_limit" /\ "traffic_limit_gb" \in DOMAIN data -> TrafficOf(data.traffic_limit_gb)
          [] OTHER -> row[k]]

\* lines 1075-1103
api_update_client(client_id, data, spawn_ok) ==
    /\ UNCHANGED <<bin_exists, now, bot, task>>
    /\ IF client_id \notin DOMAIN clients
       THEN Refuse("api_update_client", 404)
       ELSE /\ clients' = [clients EXCEPT ![client_id] = UpdatedClient(clients[client_id], data)]
            /\ UNCHANGED <<inbounds, settings, next_inbound_id, next_client_id>>
            /\ CommitAndRestart("api_update_client", IF DOMAIN data = {} THEN 0 ELSE 1, spawn_ok)

\* lines 1106-1113
api_delete_client(client_id, spawn_ok) ==
    /\ clients' = [c \in (DOMAIN clients) \ {client_id} |-> clients[c]]
    /\ UNCHANGED <<inbounds, settings, next_inbound_id, next_client_id, bin_exists, now, bot, task>>
    /\ CommitAndRestart("api_delete_client", 1, spawn_ok)

\* a reset that also sets enabled=1
api_reset_and_enable(client_id) ==
    /\ clients' = [c \in DOMAIN clients |->
                     IF c = client_id
                     THEN [clients[c] EXCEPT !.upload = 0, !.download = 0, !.enabled = TRUE]
                     ELSE clients[c]]
    /\ UNCHANGED <<inbounds, settings, next_inbound_id, next_client_id, supervisor, bin_exists, now, bot, task>>
    /\ ev' = Event("api_reset_client_traffic", 200, 0, FALSE, 1, {})

\* lines 1116-1122
api_reset_client_traffic(client_id) ==
    /\ clients' = [c \in DOMAIN clients |->
                     IF c = client_id THEN [clients[c] EXCEPT !.upload = 0, !.download = 0]
                     ELSE clients[c]]
    /\ UNCHANGED <<inbounds, settings, next_inbound_id, next_client_id, supervisor, bin_exists, now, bot, task>>
    /\ ev' = Event("api_reset_client_traffic", 200, 0, FALSE, 1, {})

-----------------------------------------------------------------------------
(* Settings and the control of the engine *)

\* lines 598-620: the text stored for a field of the body: str() of a number,
\* "true" or "false" for a flag, the string itself otherwise
StoredText(k, v) ==
    CASE k = "xray_api_port" -> ToString(v)
      [] k = "block_bittorrent" -> IF v THEN "true" ELSE "false"
      [] OTHER -> v

\* lines 597-621: every field of the body that is not None is stored; no restart
api_update_settings(data) ==
    /\ settings' = [k \in (DOMAIN settings) \cup (DOMAIN data) |->
                      IF k \in DOMAIN data THEN StoredText(k, data[k]) ELSE settings[k]]
    /\ UNCHANGED <<inbounds, clients, next_inbound_id, next_client_id, supervisor, bin_exists, now, bot, task>>
    /\ ev' = Event("api_update_settings", 200, 0, FALSE, Cardinality(DOMAIN data), {})

WARP_SOCKS_PORT == 40000

\* lines 1578-1584
WarpOutbound ==
    [tag |-> "warp", protocol |-> "socks",
     settings |-> [servers |-> <<[address |-> "127.0.0.1", port |-> WARP_SOCKS_PORT]>>]]

\* lines 1591-1595
WarpRule == [type |-> "field", outboundTag |-> "warp", network |-> "tcp,udp"]

\* lines 1620-1627: the outbounds of the file on disk, the baseline without a file
_get_xray_outbounds(file) ==
    IF file # NoFile THEN file.outbounds ELSE <<DirectOutbound, BlockedOutbound>>

\* lines 1630-1632
_set_xray_outbounds(sts, outbounds) == set_setting(sts, "custom_outbounds", json_dumps(JList(outbounds)))

NotWarp(o) == "tag" \notin DOMAIN o \/ o.tag # "warp"
NotToWarp(r) == "outboundTag" \notin DOMAIN r \/ r.outboundTag # "warp"

\* json.loads(get_setting("custom_routing_rules", "[]") or "[]")
StoredRules(sts) ==
    LET text == get_setting(sts, "custom_routing_rules", EmptyText)
    IN  IF text = EmptyText THEN [ok |-> TRUE, val |-> JList(<<>>)] ELSE json_loads(text)

\* lines 1598, 1601-1605: the rule of the mode "geo" over the domains of
\* domains_str, split at the commas
GeoRule(domains) ==
    [type |-> "field", domain |-> [k \in DOMAIN domains |-> <<"domain:", domains[k]>>],
     outboundTag |-> "warp"]

\* a save that appends the WARP outbound and rule to what is there
_apply_warp_routing_append(sts, file, mode, domains) ==
    LET kept == _get_xray_outbounds(file)
        with_ob == _set_xray_outbounds(sts, IF mode = "off" THEN SelectSeq(kept, NotWarp)
                                            ELSE Append(kept, WarpOutbound))
        loaded == StoredRules(sts)
        others == loaded.val.items
        rules == IF mode = "off" THEN SelectSeq(others, NotToWarp)
                 ELSE IF mode = "all" THEN <<WarpRule>> \o others
                 ELSE <<GeoRule(domains)>> \o others
        touched == mode \in {"off", "all"} \/ (mode = "geo" /\ domains # <<>>)
        usable == /\ loaded.ok
                  /\ loaded.val.t = "list"
                  /\ \A k \in DOMAIN loaded.val.items : IsDict(loaded.val.items[k])
    IN  IF ~touched THEN [sts |-> with_ob, ok |-> TRUE, touched |-> FALSE]
        ELSE IF ~usable THEN [sts |-> with_ob, ok |-> FALSE, touched |-> TRUE]
        ELSE [sts |-> set_setting(with_ob, "custom_routing_rules", json_dumps(JList(rules))),
              ok |-> TRUE, touched |-> TRUE]

\* lines 1573-1618: [sts: the settings afterwards, ok: no exception before
\* restart_xray(), touched: the rules were read and stored]. The outbounds of the
\* file without the one tagged warp, and the WARP outbound unless the mode is
\* "off", are stored first; then the mode "off" stores the rules without those
\* to warp, the mode "all" puts the rule of all traffic before them, the mode
\* "geo" the rule of its domains when it has any; other modes leave the rules
_apply_warp_routing(sts, file, mode, domains) ==
    LET kept == SelectSeq(_get_xray_outbounds(file), NotWarp)
        with_ob == _set_xray_outbounds(sts, IF mode = "off" THEN kept ELSE Append(kept, WarpOutbound))
        loaded == StoredRules(sts)
        others == SelectSeq(loaded.val.items, NotToWarp)
        rules == IF mode = "off" THEN others
                 ELSE IF mode = "all" THEN <<WarpRule>> \o others
                 ELSE <<GeoRule(domains)>> \o others
        touched == mode \in {"off", "all"} \/ (mode = "geo" /\ domains # <<>>)
        \* r.get raises on rules that are not a list of objects
        usable == /\ loaded.ok
                  /\ loaded.val.t = "list"
                  /\ \A k \in DOMAIN loaded.val.items : IsDict(loaded.val.items[k])
    IN  IF ~touched THEN [sts |-> with_ob, ok |-> TRUE, touched |-> FALSE]
        ELSE IF ~usable THEN [sts |-> with_ob, ok |-> FALSE, touched |-> TRUE]
        ELSE [sts |-> set_setting(with_ob, "custom_routing_rules", json_dumps(JList(rules))),
              ok |-> TRUE, touched |-> TRUE]

\* lines 1517-1524: the mode, the license key and the domains are stored, then
\* the outbounds and the rules, then restart_xray() runs
api_warp_save(mode, domains, spawn_ok) ==
    LET saved == set_setting(set_setting(set_setting(settings, "warp_mode", mode),
                                         "warp_license_key", ""), "warp_domains", domains)
        applied == _apply_warp_routing(saved, config_file, mode, domains)
    IN  /\ settings' = applied.sts
        /\ UNCHANGED <<inbounds, clients, next_inbound_id, next_client_id, bin_exists, now, bot, task>>
        /\ IF applied.ok
           THEN CommitAndRestart("api_warp_save", IF applied.touched THEN 5 ELSE 4, spawn_ok)
           ELSE /\ UNCHANGED supervisor
                /\ ev' = Event("api_warp_save", 500, 0, FALSE, 4, {})

\* lines 499-501
api_xray_start(spawn_ok) ==
    LET r == start_xray(SupState, inbounds, clients, settings, spawn_ok)
    IN  /\ SetSupervisor(r.sup)
        /\ UNCHANGED <<db, bin_exists, now, bot, task>>
        /\ ev' = [Event("api_xray_start", IF r.raised THEN 500 ELSE 200, 0, r.synth, 0, {})
                      EXCEPT !.success = r.ok]

\* lines 503-506
api_xray_stop ==
    /\ SetSupervisor(stop_xray(SupState))
    /\ UNCHANGED <<db, bin_exists, now, bot, task>>
    /\ ev' = Event("api_xray_stop", 200, 0, FALSE, 0, {})

\* lines 508-510
api_xray_restart(spawn_ok) ==
    LET r == restart_xray(SupState, inbounds, clients, settings, spawn_ok)
    IN  /\ SetSupervisor(r.sup)
        /\ UNCHANGED <<db, bin_exists, now, bot, task>>
        /\ ev' = [Event("api_xray_restart", IF r.raised THEN 500 ELSE 200, 1, r.synth, 0, {})
                      EXCEPT !.success = r.ok]

\* lines 532-546: the download puts the binary in place
api_install_xray ==
    /\ ~bin_exists
    /\ bin_exists' = TRUE
    /\ UNCHANGED <<db, supervisor, now, bot, task>>
    /\ ev' = Event("api_install_xray", 200, 0, FALSE, 0, {})

-----------------------------------------------------------------------------
(* The application: startup and shutdown *)

\* lines 329-339: the application starts over a database that exists; the
\* engine is started when the binary is there and an inbound is stored, then the
\* task of the loop is created. What start_xray() raises ends the startup
lifespan_startup(spawn_ok) ==
    LET r == start_xray(SupState, inbounds, clients, settings, spawn_ok)
    IN  /\ task = "cancelled"
        /\ UNCHANGED <<db, bin_exists, now, bot>>
        /\ IF bin_exists /\ DOMAIN inbounds # {}
           THEN /\ SetSupervisor(r.sup)
                /\ task' = IF r.raised THEN task ELSE "sleeping"
                /\ ev' = [Event("lifespan_startup", IF r.raised THEN 500 ELSE 0, 0,
                                 r.synth, 0, {}) EXCEPT !.success = r.ok]
           ELSE /\ UNCHANGED supervisor
                /\ task' = "sleeping"
                /\ ev' = Event("lifespan_startup", 0, 0, FALSE, 0, {})

\* a shutdown that cancels the task and leaves the engine as it is
lifespan_shutdown_orphan ==
    /\ task = "sleeping"
    /\ task' = "cancelled"
    /\ UNCHANGED <<db, supervisor, bin_exists, now, bot>>
    /\ ev' = Event("lifespan_shutdown", 0, 0, FALSE, 0, {})

\* lines 340-342: the application shuts down: task.cancel(), which the loop
\* receives in its sleep (lines 350-351), and stop_xray()
lifespan_shutdown ==
    /\ task = "sleeping"
    /\ task' = "cancelled"
    /\ SetSupervisor(stop_xray(SupState))
    /\ UNCHANGED <<db, bin_exists, now, bot>>
    /\ ev' = Event("lifespan_shutdown", 0, 0, FALSE, 0, {})

-----------------------------------------------------------------------------
(* The environment: the engine process, the clock, the traffic counters *)

\* the running engine stops answering SIGTERM within the grace period of 5 s
xray_hangs ==
    /\ xray_process \in alive
    /\ ~hung
    /\ hung' = TRUE
    /\ UNCHANGED <<db, xray_process, alive, config_file, launched, signals, bin_exists, now, bot, task>>
    /\ ev' = Event("xray_hangs", 0, 0, FALSE, 0, {})

\* the binary is removed from the disk
xray_bin_removed ==
    /\ bin_exists
    /\ bin_exists' = FALSE
    /\ UNCHANGED <<db, supervisor, now, bot, task>>
    /\ ev' = Event("xray_bin_removed", 0, 0, FALSE, 0, {})

\* the engine process ends on its own; the handle keeps pointing at it
xray_exits ==
    /\ xray_process \in alive
    /\ alive' = alive \ {xray_process}
    /\ hung' = FALSE
    /\ UNCHANGED <<db, xray_process, config_file, launched, signals, bin_exists, now, bot, task>>
    /\ ev' = Event("xray_exits", 0, 0, FALSE, 0, {})

\* datetime.now() advances
Tick ==
    /\ now < MaxNow
    /\ now' = now + 1
    /\ UNCHANGED <<db, supervisor, bin_exists, task, bot>>
    /\ ev' = Event("Tick", 0, 0, FALSE, 0, {})

\* the columns upload and download grow with the traffic of the client
account_traffic(client_id, up, down) ==
    /\ client_id \in DOMAIN clients
    /\ clients[client_id].upload + up <= MaxCounter
    /\ clients[client_id].download + down <= MaxCounter
    /\ clients' = [clients EXCEPT ![client_id].upload = @ + up, ![client_id].download = @ + down]
    /\ UNCHANGED <<inbounds, settings, next_inbound_id, next_client_id, supervisor, bin_exists, now, bot, task>>
    /\ ev' = Event("account_traffic", 0, 0, FALSE, 1, {})

-----------------------------------------------------------------------------
(* The quota/expiry reconciler *)

\* the quota compared with > in place of >=
ShouldDisableOverQuota(c, t) ==
    \/ c.expiry_time > 0 /\ t > c.expiry_time
    \/ c.traffic_limit > 0 /\ c.upload + c.download > c.traffic_limit

\* the expiry compared with >= in place of >
ShouldDisableAtExpiry(c, t) ==
    \/ c.expiry_time > 0 /\ t >= c.expiry_time
    \/ c.traffic_limit > 0 /\ c.upload + c.download >= c.traffic_limit

\* lines 363-369: the row is past its expiry, or at or past its quota
ShouldDisable(c, t) ==
    \/ c.expiry_time > 0 /\ t > c.expiry_time
    \/ c.traffic_limit > 0 /\ c.upload + c.download >= c.traffic_limit

\* line 361: SELECT ... FROM clients WHERE enabled=1
EnabledClients(cls) == {c \in DOMAIN cls : cls[c].enabled}

\* a pass that stops at the first client it disables
ToDisableFirst(cls, t) ==
    LET due == {c \in DOMAIN cls : cls[c].enabled /\ ShouldDisable(cls[c], t)}
    IN  {c \in due : \A d \in due : c <= d}

\* lines 362-372: the clients the pass disables
ToDisable(cls, t) == {c \in EnabledClients(cls) : ShouldDisable(cls[c], t)}

\* an UPDATE that also clears the counters of the rows it disables
DisableAndReset(cls, ids) ==
    [c \in DOMAIN cls |->
        IF c \in ids THEN [cls[c] EXCEPT !.enabled = FALSE, !.upload = 0, !.download = 0]
        ELSE cls[c]]

\* an UPDATE that sets enabled for every row: 0 for the ids, 1 for the others
DisableOnly(cls, ids) == [c \in DOMAIN cls |-> [cls[c] EXCEPT !.enabled = c \notin ids]]

\* line 371: UPDATE clients SET enabled=0 WHERE id=?, for each of them
DisableAll(cls, ids) ==
    [c \in DOMAIN cls |-> IF c \in ids THEN [cls[c] EXCEPT !.enabled = FALSE] ELSE cls[c]]

\* one restart_xray() for each client disabled
PassRestartsEach(ids) == Cardinality(ids)

\* lines 377-379: one commit and one restart_xray() when anything changed
PassRestarts(ids) == IF ids # {} THEN 1 ELSE 0

\* lines 378-379: restart_xray() runs after the commit, on the committed rows
PassRestartRows(before, after) == after

\* lines 356-382, a pass the storage does not fail; the loop of lines 345-353
\* calls it while its task is not cancelled. What restart_xray() raises after
\* the commit of line 378 is caught at line 381 and logged (status 500)
_check_and_disable_clients(spawn_ok) ==
    LET ids == ToDisable(clients, now)
        n == PassRestarts(ids)
        r == restart_xray(SupState, inbounds, PassRestartRows(clients, clients'), settings, spawn_ok)
    IN  /\ task = "sleeping"
        /\ clients' = DisableAll(clients, ids)
        /\ UNCHANGED <<inbounds, settings, next_inbound_id, next_client_id, bin_exists, now, bot, task>>
        /\ IF n = 0
           THEN /\ UNCHANGED supervisor
                /\ ev' = Event("_check_and_disable_clients", 0, 0, FALSE, 0, ids)
           ELSE /\ SetSupervisor(r.sup)
                /\ ev' = Event("_check_and_disable_clients", IF r.raised THEN 500 ELSE 0,
                               n, r.synth, IF ids # {} THEN 1 ELSE 0, ids)

\* a connection that commits every statement as it is executed
Autocommitted(before, written) == written

\* sqlite3 opens a transaction at the first UPDATE (line 371); the connection
\* dropped before conn.commit() (line 378) rolls it back
RolledBack(before, written) == before

\* lines 357-378 and 381-382: the storage fails (get_db, SELECT, an UPDATE or
\* the commit raises) after the UPDATEs of some of the clients to disable; the
\* pass is abandoned, the error is logged (lines 381-382) and the loop goes on
_check_and_disable_clients_error ==
    /\ task = "sleeping"
    /\ \E done \in SUBSET ToDisable(clients, now) :
           clients' = RolledBack(clients, DisableAll(clients, done))
    /\ UNCHANGED <<inbounds, settings, next_inbound_id, next_client_id, supervisor,
                   bin_exists, now, bot, task>>
    /\ ev' = Event("_check_and_disable_clients_error", 500, 0, FALSE, 0, {})

-----------------------------------------------------------------------------
(* Specifications *)

-----------------------------------------------------------------------------
(* tg_bot.py: the Telegram bot.  Its callbacks get_setting, set_setting and
   hash_password are the functions of main.py; create_inbound is a callback
   whose outcome the bot only observes. *)

\* the chats that write to the bot; tg_chat_id names the first one
AdminChat == 1
OtherChat == 2
Chats == {AdminChat, OtherChat}
BotToken == "123:abc"
\* a value of secrets.token_urlsafe(12)
InitialPassword == "s3cretpw"

hash_password(password) == <<"sha256", password>>

PRESETS ==
    [speed |-> [protocol |-> "vless", network |-> "tcp", security |-> "reality",
                flow |-> "xtls-rprx-vision"],
     stealth |-> [protocol |-> "vless", network |-> "xhttp", security |-> "reality",
                  flow |-> ""],
     streaming |-> [protocol |-> "vless", network |-> "ws", security |-> "tls",
                    flow |-> ""],
     gaming |-> [protocol |-> "vless", network |-> "grpc", security |-> "reality",
                 flow |-> ""]]

\* str.startswith
startswith(s, prefix) == Len(s) >= Len(prefix) /\ SubSeq(s, 1, Len(prefix)) = prefix

\* str.replace(old, ""): every occurrence of old is taken out
RECURSIVE replace(_, _)
replace(s, old) ==
    IF s = "" THEN ""
    ELSE IF startswith(s, old) THEN replace(SubSeq(s, Len(old) + 1, Len(s)), old)
    ELSE SubSeq(s, 1, 1) \o replace(SubSeq(s, 2, Len(s)), old)

\* str.strip
RECURSIVE strip(_)
strip(s) ==
    IF s = "" THEN ""
    ELSE IF SubSeq(s, 1, 1) = " " THEN strip(SubSeq(s, 2, Len(s)))
    ELSE IF SubSeq(s, Len(s), Len(s)) = " " THEN strip(SubSeq(s, 1, Len(s) - 1))
    ELSE s

\* ch in s
Contains(s, ch) == \E i \in 1..Len(s) : SubSeq(s, i, i) = ch

\* s.split(ch)[0]
SplitFirst(s, ch) ==
    IF Contains(s, ch)
    THEN LET i == CHOOSE k \in 1..Len(s) :
                      /\ SubSeq(s, k, k) = ch
                      /\ \A j \in 1..(k - 1) : SubSeq(s, j, j) # ch
         IN SubSeq(s, 1, i - 1)
    ELSE s

Digit == ("0" :> 0) @@ ("1" :> 1) @@ ("2" :> 2) @@ ("3" :> 3) @@ ("4" :> 4) @@
         ("5" :> 5) @@ ("6" :> 6) @@ ("7" :> 7) @@ ("8" :> 8) @@ ("9" :> 9)

RECURSIVE Decimal(_)
Decimal(s) ==
    IF s = "" THEN 0
    ELSE 10 * Decimal(SubSeq(s, 1, Len(s) - 1)) + Digit[SubSeq(s, Len(s), Len(s))]

AllDigits(s) == s # "" /\ \A i \in 1..Len(s) : SubSeq(s, i, i) \in DOMAIN Digit

\* int(text): ok = FALSE when it raises ValueError
int(text) ==
    IF AllDigits(text) THEN [ok |-> TRUE, val |-> Decimal(text)]
    ELSE IF Len(text) > 1 /\ SubSeq(text, 1, 1) = "-" /\ AllDigits(SubSeq(text, 2, Len(text)))
    THEN [ok |-> TRUE, val |-> 0 - Decimal(SubSeq(text, 2, Len(text)))]
    ELSE [ok |-> FALSE, val |-> 0]

\* the chat of an update and what its handler invoked, in order
NoCalls == [chat |-> 0, create_inbound |-> <<>>, set_setting |-> <<>>,
            password_update |-> <<>>, raised |-> FALSE]

\* SelfRayBot.__init__, next to the users table setup_admin() leaves
SelfRayBot ==
    /\ _user_states = EmptyTable
    /\ users = ("admin" :> hash_password(InitialPassword))
    /\ calls = NoCalls
    /\ _offset = 0
    /\ _running = FALSE
    /\ threads = EmptyTable
    /\ updates = <<>>
    /\ confirmed = 0
    /\ handled = <<>>

Init ==
    /\ inbounds = EmptyTable
    /\ clients = EmptyTable
    /\ settings = EmptyTable
    /\ next_inbound_id = 1
    /\ next_client_id = 1
    /\ xray_process = NoProcess
    /\ alive = {}
    /\ bin_exists \in BOOLEAN
    /\ config_file = NoFile
    /\ launched = NoFile
    /\ signals = <<>>
    /\ hung = FALSE
    /\ task = "sleeping"
    /\ now = 0
    /\ ev = Event("init", 0, 0, FALSE, 0, {})
    /\ SelfRayBot

Flows == {"", "xtls-rprx-vision"}

CreateInputs == {InboundCreate(p, port, IF p = "vless" THEN "xtls-rprx-vision" ELSE "", "") :
                 p \in Protocols, port \in Ports}

ClientCreate(email, flow, expiry_days, traffic_limit_gb) ==
    [email |-> email, flow |-> flow, expiry_days |-> expiry_days,
     traffic_limit_gb |-> traffic_limit_gb]

EnableInputs == {[enabled |-> b] : b \in BOOLEAN}

SettingsInputs ==
    {[block_bittorrent |-> FALSE],
     [xray_api_port |-> 10086],
     [custom_routing_rules |-> json_dumps(JList(<<WhitelistRule>>))]}

\* the engine installed
InitInstalled == Init /\ bin_exists

\* the model creates no more than MaxInbounds inbounds and MaxClients clients
CanCreate == next_inbound_id <= MaxInbounds /\ next_client_id <= MaxClients
CanAdd == next_client_id <= MaxClients

\* the repository and the synthesis, the engine starting without error
NextSynth ==
    \/ CanCreate /\ \E d \in CreateInputs, x \in Suffixes : api_create_inbound(d, x, TRUE)
    \/ \E i \in InboundIds : api_delete_inbound(i, TRUE)
    \/ \E i \in InboundIds : api_toggle_inbound(i, TRUE)
    \/ CanAdd /\ \E i \in InboundIds : api_add_client(i, ClientCreate("user", "", 0, 0), TRUE)
    \/ \E c \in ClientIds, d \in EnableInputs : api_update_client(c, d, TRUE)
    \/ \E c \in ClientIds : api_delete_client(c, TRUE)
    \/ api_xray_restart(TRUE)

SpecSynth == InitInstalled /\ [][NextSynth]_vars

\* the inbounds, the settings and the synthesis; one inbound more than
\* MaxInbounds, so that an enabled inbound stands next to a disabled one
ListedIds == 1..(MaxInbounds + 1)
CanList == next_inbound_id <= MaxInbounds + 1 /\ next_client_id <= MaxClients

NextSettings ==
    \/ CanList /\ \E d \in CreateInputs, x \in Suffixes : api_create_inbound(d, x, TRUE)
    \/ \E i \in ListedIds : api_toggle_inbound(i, TRUE)
    \/ \E d \in SettingsInputs : api_update_settings(d)
    \/ \E mode \in {"all", "off"} : api_warp_save(mode, <<>>, TRUE)
    \/ api_xray_restart(TRUE)

SpecSettings == InitInstalled /\ [][NextSettings]_vars

\* the clients of one VLESS inbound, the clock, the traffic and the reconciler
QuotaInputs == {[enabled |-> TRUE], [enabled |-> FALSE], [traffic_limit_gb |-> 1], [expiry_days |-> 1]}
TrafficInputs == {<<1, 0>>, <<0, 1>>}

Reconcile == _check_and_disable_clients(TRUE)

NextReconciler ==
    \/ CanCreate /\ \E x \in Suffixes :
           api_create_inbound(InboundCreate("vless", 443, "xtls-rprx-vision", ""), x, TRUE)
    \/ CanAdd /\ \E i \in InboundIds, days \in {0, 1}, gb \in {0, 1} :
           api_add_client(i, ClientCreate("user", "", days, gb), TRUE)
    \/ \E c \in ClientIds, d \in QuotaInputs : api_update_client(c, d, TRUE)
    \/ \E c \in ClientIds : api_reset_client_traffic(c)
    \/ \E c \in ClientIds, t \in TrafficInputs : account_traffic(c, t[1], t[2])
    \/ Tick
    \/ Reconcile
    \/ _check_and_disable_clients_error

SpecReconciler == Init /\ [][NextReconciler]_vars

\* the reconciler next to an operator who adds clients, gives them a quota,
\* enables them again and resets their counters
NextFairReconciler ==
    \/ CanCreate /\ \E x \in Suffixes :
           api_create_inbound(InboundCreate("vless", 443, "xtls-rprx-vision", ""), x, TRUE)
    \/ CanAdd /\ \E i \in InboundIds, days \in {0, 1}, gb \in {0, 1} :
           api_add_client(i, ClientCreate("user", "", days, gb), TRUE)
    \/ \E c \in ClientIds, d \in {[enabled |-> TRUE], [traffic_limit_gb |-> 1]} :
           api_update_client(c, d, TRUE)
    \/ \E c \in ClientIds : api_reset_client_traffic(c)
    \/ \E c \in ClientIds, t \in TrafficInputs : account_traffic(c, t[1], t[2])
    \/ Tick
    \/ Reconcile
    \/ _check_and_disable_clients_error

\* lines 346-349: the loop calls the pass again and again, every 60 seconds
SpecFairReconciler == InitInstalled /\ [][NextFairReconciler]_vars /\ WF_vars(Reconcile)

\* the supervisor under the handlers that start, stop and restart the engine,
\* the reconciler, the shutdown and startup of the application, a binary that
\* comes and goes, a spawn that fails, an engine that ends or hangs, and an
\* inbound whose settings column is stored from the body of PUT /api/inbounds/{id}
VlessSettings == [clients |-> <<>>, decryption |-> "none"]
InboundUpdateInputs == {[settings |-> BrokenText], [settings |-> VlessSettings]}
Serving == task = "sleeping"

NextSupervisor ==
    \/ Serving /\ CanCreate /\ \E x \in Suffixes, ok \in BOOLEAN :
           api_create_inbound(InboundCreate("vless", 443, "xtls-rprx-vision", ""), x, ok)
    \/ Serving /\ \E i \in InboundIds, d \in InboundUpdateInputs, ok \in BOOLEAN :
           api_update_inbound(i, d, ok)
    \/ Serving /\ CanAdd /\ \E i \in InboundIds, ok \in BOOLEAN :
           api_add_client(i, ClientCreate("user", "", 0, 1), ok)
    \/ Serving /\ \E c \in ClientIds : account_traffic(c, 1, 1)
    \/ Serving /\ api_update_settings([block_bittorrent |-> FALSE])
    \/ Serving /\ \E ok \in BOOLEAN : api_xray_start(ok)
    \/ Serving /\ api_xray_stop
    \/ Serving /\ \E ok \in BOOLEAN : api_xray_restart(ok)
    \/ Serving /\ api_install_xray
    \/ \E ok \in BOOLEAN : _check_and_disable_clients(ok)
    \/ _check_and_disable_clients_error
    \/ lifespan_shutdown
    \/ \E ok \in BOOLEAN : lifespan_startup(ok)
    \/ xray_bin_removed
    \/ xray_exits
    \/ xray_hangs

SpecSupervisor == Init /\ [][NextSupervisor]_vars

\* every handler that writes an inbound, a client or a setting, the engine
\* installed and starting without error
RepairInputs == {[settings |-> VlessSettings]}

NextMutations ==
    \/ CanCreate /\ \E x \in Suffixes :
           api_create_inbound(InboundCreate("vless", 443, "xtls-rprx-vision", ""), x, TRUE)
    \/ \E i \in InboundIds, d \in RepairInputs : api_update_inbound(i, d, TRUE)
    \/ \E i \in InboundIds : api_delete_inbound(i, TRUE)
    \/ \E i \in InboundIds : api_toggle_inbound(i, TRUE)
    \/ CanAdd /\ \E i \in InboundIds : api_add_client(i, ClientCreate("user", "", 0, 0), TRUE)
    \/ \E c \in ClientIds, d \in EnableInputs : api_update_client(c, d, TRUE)
    \/ \E c \in ClientIds : api_delete_client(c, TRUE)
    \/ \E d \in {[block_bittorrent |-> FALSE], [xray_api_port |-> 10086]} :
           api_update_settings(d)
    \/ api_warp_save("all", <<>>, TRUE)
    \/ \E c \in ClientIds : api_reset_client_traffic(c)
    \/ CanCreate /\ \E x \in Suffixes :
           api_create_inbound_client_error(InboundCreate("vless", 443, "xtls-rprx-vision", ""), x)

SpecMutations == InitInstalled /\ [][NextMutations]_vars

\* the identity of the inbounds under the handlers that write them: two
\* inbounds, a change of port by api_update_inbound, a change of protocol and
\* port by api_edit_inbound
NextInbounds ==
    \/ CanList /\ \E p \in {"vless", "trojan"}, x \in Suffixes :
           api_create_inbound(InboundCreate(p, 443, "", ""), x, TRUE)
    \/ \E i \in ListedIds : api_update_inbound(i, [port |-> 8443], TRUE)
    \/ \E i \in ListedIds, p \in {"vless", "trojan"} :
           api_edit_inbound(i, InboundCreate(p, 8443, "", ""), TRUE)
    \/ \E i \in ListedIds : api_toggle_inbound(i, TRUE)
    \/ \E i \in ListedIds : api_delete_inbound(i, TRUE)

SpecInbounds == InitInstalled /\ [][NextInbounds]_vars

\* a VLESS inbound over TCP with Reality on port 443 and its clients, from an
\* empty repository, with the binary installed or not
RealityInbound ==
    [InboundCreate("vless", 443, "xtls-rprx-vision", "") EXCEPT
        !.security = "reality", !.reality_dest = "google.com:443"]

NextEndToEnd ==
    \/ api_install_xray
    \/ CanCreate /\ \E x \in Suffixes, ok \in BOOLEAN : api_create_inbound(RealityInbound, x, ok)
    \/ CanCreate /\ api_create_inbound_keys_error(RealityInbound)
    \/ CanAdd /\ \E i \in InboundIds, f \in Flows, ok \in BOOLEAN :
           api_add_client(i, ClientCreate("user", f, 0, 0), ok)
    \/ \E c \in ClientIds, d \in EnableInputs, ok \in BOOLEAN : api_update_client(c, d, ok)
    \/ \E i \in InboundIds, ok \in BOOLEAN : api_toggle_inbound(i, ok)
    \/ \E ok \in BOOLEAN : api_xray_restart(ok)

SpecEndToEnd == Init /\ [][NextEndToEnd]_vars

\* the synthesis over the texts the settings custom_routing_rules and
\* custom_outbounds can hold: nothing, a text that is not JSON, an object, and
\* lists; custom_routing_rules is stored as given by POST /api/settings,
\* custom_outbounds is read from the settings table as the database holds it and
\* rewritten by the WARP handler
PrivateRule == [type |-> "field", ip |-> <<"geoip:private">>, outboundTag |-> "blocked"]
ProxyOutbound == [tag |-> "proxy", protocol |-> "socks"]
UntaggedOutbound == [protocol |-> "freedom"]
OtherDirect == [tag |-> "direct", protocol |-> "blackhole"]

RoutingTexts ==
    {EmptyText, BrokenText,
     json_dumps(JObject([type |-> "field"])),
     json_dumps(JList(<<WhitelistRule, PrivateRule>>)),
     json_dumps(JList(<<PrivateRule, WhitelistRule>>))}

OutboundTexts ==
    {EmptyText, BrokenText,
     json_dumps(JObject([tag |-> "proxy"])),
     json_dumps(JList(<<OtherDirect, ProxyOutbound, BlockedOutbound, UntaggedOutbound>>)),
     json_dumps(JList(<<ProxyOutbound, JString("proxy"), UntaggedOutbound>>))}

InitMerge ==
    /\ inbounds = EmptyTable
    /\ clients = EmptyTable
    /\ \E t \in OutboundTexts :
           settings = IF t = EmptyText THEN EmptyTable
                      ELSE set_setting(EmptyTable, "custom_outbounds", t)
    /\ next_inbound_id = 1
    /\ next_client_id = 1
    /\ xray_process = NoProcess
    /\ alive = {}
    /\ bin_exists = TRUE
    /\ config_file = NoFile
    /\ launched = NoFile
    /\ signals = <<>>
    /\ hung = FALSE
    /\ task = "sleeping"
    /\ now = 0
    /\ ev = Event("init", 0, 0, FALSE, 0, {})
    /\ SelfRayBot

NextMerge ==
    \/ \E t \in RoutingTexts : api_update_settings([custom_routing_rules |-> t])
    \/ \E b \in BOOLEAN : api_update_settings([block_bittorrent |-> b])
    \/ api_xray_restart(TRUE)
    \/ api_xray_stop
    \/ api_warp_save("all", <<>>, TRUE)

SpecMerge == InitMerge /\ [][NextMerge]_vars

\* the synthesis over the texts custom_dns can hold, stored as given by POST
\* /api/settings: nothing, a text that is not JSON, an object of resolvers, and
\* the empty object and the empty list
QuadNine == JObject([servers |-> <<"9.9.9.9">>])

DnsTexts ==
    {EmptyText, BrokenText, json_dumps(QuadNine),
     json_dumps(JObject(EmptyTable)), json_dumps(JList(<<>>))}

NextDns ==
    \/ \E t \in DnsTexts : api_update_settings([custom_dns |-> t])
    \/ \E b \in BOOLEAN : api_update_settings([block_bittorrent |-> b])
    \/ CanCreate /\ \E x \in Suffixes :
           api_create_inbound(InboundCreate("vless", 443, "xtls-rprx-vision", ""), x, TRUE)
    \/ \E ok \in BOOLEAN : api_xray_restart(ok)
    \/ api_xray_stop

SpecDns == InitInstalled /\ [][NextDns]_vars

\* the creation of an inbound of each protocol, with and without a client_name,
\* next to the handlers that change the inbound and its clients afterwards
CreationInputs ==
    {InboundCreate(p, 443, IF p = "vless" THEN "xtls-rprx-vision" ELSE "", name) :
         p \in Protocols, name \in {"", "alice"}}

NextCreation ==
    \/ api_install_xray
    \/ CanCreate /\ \E d \in CreationInputs, x \in Suffixes, ok \in BOOLEAN :
           api_create_inbound(d, x, ok)
    \/ CanCreate /\ \E d \in CreationInputs, x \in Suffixes :
           api_create_inbound_client_error(d, x)
    \/ CanAdd /\ \E i \in InboundIds, ok \in BOOLEAN :
           api_add_client(i, ClientCreate("user", "", 0, 1), ok)
    \/ \E c \in ClientIds, d \in EnableInputs, ok \in BOOLEAN : api_update_client(c, d, ok)
    \/ \E i \in InboundIds, ok \in BOOLEAN : api_toggle_inbound(i, ok)
    \/ \E i \in InboundIds, ok \in BOOLEAN : api_delete_inbound(i, ok)

SpecCreation == Init /\ [][NextCreation]_vars

\* the saves of the WARP mode, with and without domains, next to restarts, the
\* installation of the binary and rules stored by POST /api/settings
WarpModes == {"off", "all", "geo"}
WarpDomains == {<<>>, <<"example.com">>}

NextWarp ==
    \/ \E mode \in WarpModes, domains \in WarpDomains, ok \in BOOLEAN :
           api_warp_save(mode, domains, ok)
    \/ \E t \in {BrokenText, json_dumps(JList(<<WhitelistRule>>))} :
           api_update_settings([custom_routing_rules |-> t])
    \/ \E ok \in BOOLEAN : api_xray_restart(ok)
    \/ api_xray_stop
    \/ api_install_xray

SpecWarp == Init /\ [][NextWarp]_vars


\* ---------------------------------------------------------------------------
\* Properties of the synthesis

\* the document synthesis produces from the repository as it stands
Document == generate_xray_config(config_file, inbounds, clients, settings).config

\* the identifier a client object of the document carries
ClientKey(protocol, obj) == IF protocol = "trojan" THEN obj.password ELSE obj.id

\* the identifiers embedded in one inbound of a document
EmbeddedIn(entry) ==
    IF "clients" \in DOMAIN entry.settings
    THEN {ClientKey(entry.protocol, entry.settings.clients[k]) : k \in DOMAIN entry.settings.clients}
    ELSE {}

\* the identifiers embedded in a document
Embedded(doc) == UNION {EmbeddedIn(doc.inbounds[k]) : k \in DOMAIN doc.inbounds}

\* the enabled clients of the enabled inbounds whose protocol is in protocols
EnabledUnder(protocols) ==
    {clients[c].uuid : c \in {x \in DOMAIN clients :
        /\ clients[x].enabled
        /\ clients[x].inbound_id \in DOMAIN inbounds
        /\ inbounds[clients[x].inbound_id].enabled
        /\ inbounds[clients[x].inbound_id].protocol \in protocols}}

\* C1 as stated: the document embeds exactly the enabled clients of the enabled
\* inbounds, of whatever protocol
C1_EveryEnabledClientEmbedded == Embedded(Document) = EnabledUnder(Protocols)

\* C1: the document embeds exactly the enabled clients of the enabled vless,
\* vmess and trojan inbounds, each once and under its own inbound; the enabled
\* clients of a shadowsocks inbound are not embedded
C1_EnabledClientsOfClientProtocols ==
    /\ Embedded(Document) = EnabledUnder(ClientProtocols)
    /\ \A k \in DOMAIN Document.inbounds :
           LET entry == Document.inbounds[k]
               owners == {i \in DOMAIN inbounds : inbounds[i].tag = entry.tag}
           IN  entry.protocol \in ClientProtocols =>
                   /\ Len(entry.settings.clients) = Cardinality(EmbeddedIn(entry))
                   /\ EmbeddedIn(entry) =
                          {clients[c].uuid : c \in {x \in DOMAIN clients :
                              clients[x].enabled /\ clients[x].inbound_id \in owners}}

\* an enabled inbound holds an enabled client next to a disabled one
C1_Witness ==
    \E i \in DOMAIN inbounds, c, d \in DOMAIN clients :
        /\ inbounds[i].enabled /\ inbounds[i].protocol \in ClientProtocols
        /\ clients[c].inbound_id = i /\ clients[c].enabled
        /\ clients[d].inbound_id = i /\ ~clients[d].enabled
        /\ clients[c].uuid \in Embedded(Document)

\* the ids of the enabled inbounds
EnabledInbounds == {i \in DOMAIN inbounds : inbounds[i].enabled}

\* C2: the first inbound of the document is the management inbound (tag
\* api-in, listen 127.0.0.1, port from the xray_api_port setting), the rest are
\* exactly the enabled inbounds, the outbounds start with direct and blocked,
\* and the first routing rule sends api-in to api, whatever the settings hold
C2_DocumentLayout ==
    LET doc == Document
        rest == Tail(doc.inbounds)
    IN  /\ doc.inbounds[1].tag = ApiInTag
        /\ doc.inbounds[1].listen = "127.0.0.1"
        /\ ToString(doc.inbounds[1].port) =
               (IF "xray_api_port" \in DOMAIN settings THEN settings.xray_api_port ELSE "10085")
        /\ Len(rest) = Cardinality(EnabledInbounds)
        /\ {rest[k].tag : k \in DOMAIN rest} = {inbounds[i].tag : i \in EnabledInbounds}
        /\ \A k \in DOMAIN rest : \E i \in EnabledInbounds :
               /\ rest[k].tag = inbounds[i].tag
               /\ rest[k].port = inbounds[i].port
               /\ rest[k].protocol = inbounds[i].protocol
        /\ Len(doc.outbounds) >= 2
        /\ doc.outbounds[1] = DirectOutbound
        /\ doc.outbounds[2] = BlockedOutbound
        /\ doc.routing.rules[1] = ApiRule

\* an enabled inbound next to a disabled one, with the port, the routing rules
\* and the outbounds all configured
C2_Witness ==
    /\ EnabledInbounds # {}
    /\ DOMAIN inbounds \ EnabledInbounds # {}
    /\ {"xray_api_port", "custom_routing_rules", "custom_outbounds"} \subseteq DOMAIN settings
    /\ Document.inbounds[1].port = 10086
    /\ \E k \in DOMAIN Document.routing.rules :
           k > 1 /\ Document.routing.rules[k] = WarpRule
    /\ \E k \in DOMAIN Document.outbounds :
           k > 2 /\ Document.outbounds[k] = WarpOutbound

\* the enabled client rows of the inbounds tagged as an inbound of the document
RowsUnder(entry) ==
    {c \in DOMAIN clients :
        /\ clients[c].enabled
        /\ clients[c].inbound_id \in DOMAIN inbounds
        /\ inbounds[clients[c].inbound_id].tag = entry.tag}

\* C3: a vless inbound's client becomes {id, email, flow}, a vmess inbound's
\* {id, email, alterId = 0}, a trojan inbound's {password, email}; a
\* shadowsocks inbound carries its stored settings, the shared method and
\* password and no client list, whatever client rows it has
C3_ProjectionByProtocol ==
    \A k \in DOMAIN Document.inbounds :
        LET entry == Document.inbounds[k]
            rows == RowsUnder(entry)
            objs == IF "clients" \in DOMAIN entry.settings
                    THEN {entry.settings.clients[n] : n \in DOMAIN entry.settings.clients}
                    ELSE {}
        IN  /\ entry.protocol = "vless" =>
                objs = {[id |-> clients[c].uuid, email |-> clients[c].email,
                         flow |-> clients[c].flow] : c \in rows}
            /\ entry.protocol = "vmess" =>
                objs = {[id |-> clients[c].uuid, email |-> clients[c].email,
                         alterId |-> 0] : c \in rows}
            /\ entry.protocol = "trojan" =>
                objs = {[password |-> clients[c].uuid, email |-> clients[c].email] : c \in rows}
            /\ entry.protocol = "shadowsocks" =>
                /\ "clients" \notin DOMAIN entry.settings
                /\ {"method", "password"} \subseteq DOMAIN entry.settings
                /\ \E i \in EnabledInbounds :
                       inbounds[i].tag = entry.tag /\ entry.settings = inbounds[i].settings

\* a shadowsocks inbound of the document has an enabled client row
C3_Witness ==
    \E k \in DOMAIN Document.inbounds :
        /\ Document.inbounds[k].protocol = "shadowsocks"
        /\ RowsUnder(Document.inbounds[k]) # {}

C5_SynthesisLeavesTheFile ==
    [][(ev'.op = "api_xray_restart" /\ ev'.synth) =>
           UNCHANGED <<inbounds, clients, settings, config_file>>]_vars

\* C5: synthesis changes neither the inbounds, the clients nor the settings,
\* and it writes the document over the configuration file itself: after every
\* step that synthesized, the file holds the document of the tables
C5_SynthesisWritesTheFile ==
    /\ [][(ev'.op = "api_xray_restart" /\ ev'.synth) => UNCHANGED <<inbounds, clients, settings>>]_vars
    /\ [](ev.synth => config_file = Document)

\* a restart has replaced the file by the document of the tables
C5_Witness ==
    /\ ev.op = "api_xray_restart" /\ ev.synth
    /\ config_file # NoFile /\ config_file = Document
    /\ DOMAIN clients # {}

\* ---------------------------------------------------------------------------
\* Properties of the reconciler

\* a step of the reconciler, whether the storage fails it or not
Pass == Reconcile \/ _check_and_disable_clients_error

\* the client is past its expiry
Expired(c) == clients[c].expiry_time > 0 /\ now > clients[c].expiry_time

\* the client is at or past its quota
Exhausted(c) ==
    clients[c].traffic_limit > 0 /\ clients[c].upload + clients[c].download >= clients[c].traffic_limit

\* C6: no pass of the reconciler turns enabled from false to true
C6_NeverReenables ==
    [][Pass => \A c \in DOMAIN clients :
                   ~clients[c].enabled => c \in DOMAIN clients' /\ ~clients'[c].enabled]_vars

\* a pass has disabled a client and left another one, disabled before it and
\* under every threshold, disabled
C6_Witness ==
    /\ ev.op = "_check_and_disable_clients" /\ ev.disabled # {}
    /\ \E c \in DOMAIN clients \ ev.disabled :
           ~clients[c].enabled /\ ~Expired(c) /\ ~Exhausted(c)

\* C7: a pass disables an enabled client whose upload+download equals its
\* traffic_limit T > 0, leaves enabled one with upload+download = T-1 and no
\* expiry, and leaves enabled one with traffic_limit 0 that is not past an expiry
C7_QuotaBoundary ==
    [][Reconcile => \A c \in DOMAIN clients :
           LET row == clients[c]
               total == row.upload + row.download
           IN  row.enabled =>
                 /\ (row.traffic_limit > 0 /\ total = row.traffic_limit)
                        => ~clients'[c].enabled
                 /\ (row.traffic_limit > 0 /\ total = row.traffic_limit - 1 /\ row.expiry_time = 0)
                        => clients'[c].enabled
                 /\ (row.traffic_limit = 0 /\ ~Expired(c))
                        => clients'[c].enabled]_vars

\* one pass has disabled a client at exactly its quota and left enabled a
\* client one unit below its quota
C7_Witness ==
    /\ ev.op = "_check_and_disable_clients"
    /\ \E c \in ev.disabled, d \in DOMAIN clients :
           /\ clients[c].traffic_limit > 0 /\ clients[c].expiry_time = 0
           /\ clients[c].upload + clients[c].download = clients[c].traffic_limit
           /\ ~clients[c].enabled
           /\ clients[d].traffic_limit > 0 /\ clients[d].expiry_time = 0
           /\ clients[d].upload + clients[d].download = clients[d].traffic_limit - 1
           /\ clients[d].enabled

\* C8: a pass disables an enabled client without quota whose expiry_time E > 0
\* lies before now, leaves it enabled when now = E, and leaves enabled a
\* client with expiry_time 0 that is not at its quota
C8_ExpiryBoundary ==
    [][Reconcile => \A c \in DOMAIN clients :
           LET row == clients[c]
           IN  row.enabled =>
                 /\ (row.expiry_time > 0 /\ row.traffic_limit = 0 /\ now > row.expiry_time)
                        => ~clients'[c].enabled
                 /\ (row.expiry_time > 0 /\ row.traffic_limit = 0 /\ now = row.expiry_time)
                        => clients'[c].enabled
                 /\ (row.expiry_time = 0 /\ ~Exhausted(c))
                        => clients'[c].enabled]_vars

\* one pass has disabled a client past its expiry and left enabled a client
\* whose expiry is now
C8_Witness ==
    /\ ev.op = "_check_and_disable_clients"
    /\ \E c \in ev.disabled, d \in DOMAIN clients :
           /\ clients[c].traffic_limit = 0
           /\ clients[c].expiry_time > 0 /\ now > clients[c].expiry_time
           /\ ~clients[c].enabled
           /\ clients[d].traffic_limit = 0
           /\ clients[d].expiry_time > 0 /\ now = clients[d].expiry_time
           /\ clients[d].enabled

\* the clients a step turns from enabled to disabled
TurnedOff == {c \in DOMAIN clients : clients[c].enabled /\ ~clients'[c].enabled}

\* C9: a pass that disables k >= 1 clients commits once and calls restart_xray()
\* once, after the commit: the document that restart synthesizes embeds none of
\* the k clients; a pass that disables none neither restarts nor writes
C9_OneCommitOneRestart ==
    [][Reconcile =>
           /\ ev'.disabled = TurnedOff
           /\ TurnedOff # {} =>
                 /\ ev'.commits = 1
                 /\ ev'.restarts = 1
                 /\ ev'.synth =>
                       /\ config_file' = Document'
                       /\ Embedded(config_file') \cap {clients[c].uuid : c \in TurnedOff} = {}
                 /\ bin_exists => ev'.synth
           /\ TurnedOff = {} =>
                 /\ ev'.commits = 0
                 /\ ev'.restarts = 0
                 /\ UNCHANGED <<db, supervisor>>]_vars

\* one pass has disabled two clients and restarted once, and the file it left
\* embeds neither
C9_Witness ==
    /\ ev.op = "_check_and_disable_clients"
    /\ Cardinality(ev.disabled) >= 2
    /\ ev.restarts = 1 /\ ev.commits = 1 /\ ev.synth
    /\ config_file # NoFile
    /\ \A c \in ev.disabled : clients[c].uuid \notin Embedded(config_file)

\* C10: after a pass the storage did not fail no enabled client is past its
\* expiry or at its quota; and, the loop calling the pass again and again, an
\* enabled client past a threshold is eventually disabled, unless it is deleted
\* or an operator takes it below the threshold first
C10_OverdueDisabled ==
    /\ [](ev.op = "_check_and_disable_clients" =>
              \A c \in DOMAIN clients : clients[c].enabled => ~Expired(c) /\ ~Exhausted(c))
    /\ \A c \in ClientIds :
           (c \in DOMAIN clients /\ clients[c].enabled /\ (Expired(c) \/ Exhausted(c)))
               ~> (c \notin DOMAIN clients \/ ~clients[c].enabled
                     \/ (~Expired(c) /\ ~Exhausted(c)))

\* a pass has disabled a client that is past a threshold, and no enabled
\* client is past one
C10_Witness ==
    /\ ev.op = "_check_and_disable_clients"
    /\ \E c \in ev.disabled : ~clients[c].enabled /\ (Expired(c) \/ Exhausted(c))
    /\ \E c \in DOMAIN clients : clients[c].enabled

\* C11: a pass of the reconciler deletes no client and writes nothing but the
\* enabled flag: the client ids, every other column of every client, the
\* inbounds and the settings are as before
C11_PassWritesOnlyEnabled ==
    [][Pass =>
           /\ DOMAIN clients' = DOMAIN clients
           /\ \A c \in DOMAIN clients :
                  [clients'[c] EXCEPT !.enabled = clients[c].enabled] = clients[c]
           /\ UNCHANGED <<inbounds, settings, next_inbound_id, next_client_id>>]_vars

\* a pass has disabled a client that keeps its quota and its counters
C11_Witness ==
    /\ ev.op = "_check_and_disable_clients"
    /\ \E c \in ev.disabled :
           /\ ~clients[c].enabled
           /\ clients[c].traffic_limit > 0
           /\ clients[c].upload + clients[c].download >= clients[c].traffic_limit

\* ---------------------------------------------------------------------------
\* Properties of the loop and of the supervisor

\* the enabled clients a pass has to disable
Due == {c \in DOMAIN clients : clients[c].enabled /\ (Expired(c) \/ Exhausted(c))}

\* the clients whose row a step changed
Changed == {c \in DOMAIN clients : c \notin DOMAIN clients' \/ clients'[c] # clients[c]}

\* C12: an error inside a pass does not end the loop. A pass the storage fails
\* leaves the tables and the supervisor as they were, also when it had executed
\* some of its UPDATEs; a pass whose restart of the engine raises has committed
\* the whole batch (every due client, nothing else) and leaves the engine
\* stopped; after either the task of the loop is still sleeping and the next
\* pass can run. The task stops sleeping only when the shutdown cancels it.
C12_FailedPassKeepsLoop ==
    /\ [][ev'.op = "_check_and_disable_clients_error" =>
              /\ UNCHANGED <<db, supervisor>>
              /\ task' = "sleeping"]_vars
    /\ [][(ev'.op = "_check_and_disable_clients" /\ ev'.status = 500) =>
              /\ Changed = Due
              /\ UNCHANGED <<inbounds, settings>>
              /\ xray_process' = NoProcess /\ alive' = {}
              /\ task' = "sleeping"]_vars
    /\ [][(task = "sleeping" /\ task' # "sleeping") =>
              (ev'.op = "lifespan_shutdown" /\ task' = "cancelled")]_vars
    /\ [](ev.op = "_check_and_disable_clients_error" => ENABLED Reconcile)

\* a failed pass behind, a due client still enabled, the loop alive
C12_Witness ==
    /\ ev.op = "_check_and_disable_clients_error"
    /\ Due # {}
    /\ task = "sleeping"

\* C13 as stated: both the loop and the handlers only ever set enabled to
\* false, so a flag that is false stays false in every step.
C13_FalseStaysFalse ==
    [][\A c \in DOMAIN clients :
           (~clients[c].enabled /\ c \in DOMAIN clients') => ~clients'[c].enabled]_vars

\* C13, amended: the pass of the loop never sets enabled to true, and the one
\* step that turns a false flag true is the handler of PUT /api/clients/{id}
\* with enabled=true in its body; the pass and the handler are each one step
\* (neither awaits between its read and its commit), and the pass after a
\* re-enabling leaves no due client enabled.
C13_OnlyTheOperatorReenables ==
    /\ [][\A c \in DOMAIN clients :
              (~clients[c].enabled /\ c \in DOMAIN clients' /\ clients'[c].enabled) =>
                  /\ api_update_client(c, [enabled |-> TRUE], TRUE)
                  /\ ~Pass]_vars
    /\ [][Reconcile => \A c \in DOMAIN clients' :
              clients'[c].enabled => (clients[c].enabled /\ c \notin Due)]_vars

\* an operator has enabled a client that is past its expiry
C13_Witness ==
    /\ ev.op = "api_update_client"
    /\ ev.status = 200
    /\ \E c \in DOMAIN clients :
           /\ clients[c].enabled
           /\ clients[c].traffic_limit = 0
           /\ Expired(c)

\* C14: start_xray() called with the binary absent, or with a spawn that fails
\* once the document is written, returns False, starts no process and leaves
\* no handle and no live engine, whether an engine was running before or not.
C14_FailedStartLeavesStopped ==
    [][\A ok \in BOOLEAN :
           (/\ api_xray_start(ok)
            /\ ~bin_exists \/ (~ok /\ ~SettingsMalformed(inbounds)))
           => /\ ev'.status = 200 /\ ~ev'.success
              /\ xray_process' = NoProcess
              /\ alive' = alive \ {xray_process}
              /\ alive' = {}
              /\ ~(xray_process' # NoProcess /\ xray_process' \in alive')]_vars

\* a start that failed after it had stopped the engine that was running
C14_Witness ==
    /\ ev.op = "api_xray_start"
    /\ ev.status = 200
    /\ ~ev.success
    /\ signals # <<>>
    /\ ~is_xray_running

\* C15: stop_xray() always leaves no handle. A tracked process that is alive
\* gets SIGTERM first and SIGKILL only when it has not ended within the grace
\* period; a tracked process that has already ended, or no process at all,
\* gets no signal. Stopping again changes nothing and signals nothing.
C15_StopClearsTheHandle ==
    /\ [][(api_xray_stop \/ lifespan_shutdown) =>
              /\ xray_process' = NoProcess
              /\ alive' = alive \ {xray_process}
              /\ (xray_process \in alive /\ ~hung) => signals' = <<"terminate">>
              /\ (xray_process \in alive /\ hung) => signals' = <<"terminate", "kill">>
              /\ xray_process \notin alive => (signals' = <<>> /\ alive' = alive)]_vars
    /\ [](LET once == stop_xray(SupState)
               twice == stop_xray([once EXCEPT !.signals = <<>>])
           IN  /\ once.proc = NoProcess
               /\ twice.proc = NoProcess
               /\ twice.alive = once.alive
               /\ twice.file = once.file
               /\ twice.signals = <<>>)

\* a stop that had to kill an engine that did not end on SIGTERM
C15_Witness ==
    /\ ev.op = "api_xray_stop"
    /\ signals = <<"terminate", "kill">>
    /\ xray_process = NoProcess
    /\ alive = {}

\* C16: in every state reached by the handlers that start, stop and restart
\* the engine, the handlers that write the tables, the passes of the loop, the
\* startup and the shutdown, in any order, at most one engine process is alive
\* and a live engine process is the one the handle refers to.
C16_OneTrackedEngine ==
    /\ Cardinality(alive) <= 1
    /\ \A p \in alive : p = xray_process

\* a restart that replaced a running engine by a new one
C16_Witness ==
    /\ ev.op = "api_xray_restart"
    /\ signals = <<"terminate">>
    /\ is_xray_running
    /\ alive = {xray_process}

\* the handlers that write an inbound or a client, and the one that stores the
\* WARP outbound and rule in the settings
RestartingHandlers ==
    {"api_create_inbound", "api_update_inbound", "api_delete_inbound", "api_toggle_inbound",
     "api_add_client", "api_update_client", "api_delete_client", "api_warp_save"}

C18_ResetOnlyClearsCounters ==
    [][\A c \in ClientIds :
           api_reset_client_traffic(c) =>
               /\ DOMAIN clients' = DOMAIN clients
               /\ \A d \in DOMAIN clients :
                      clients'[d] = IF d = c
                                    THEN [clients[d] EXCEPT !.upload = 0, !.download = 0]
                                    ELSE clients[d]
               /\ UNCHANGED <<inbounds, settings, supervisor>>
               /\ ev'.restarts = 0]_vars

\* the counters of a disabled client with a quota were reset, next to a client
\* that keeps its counters
C18_Witness ==
    /\ ev.op = "api_reset_client_traffic"
    /\ \E c, d \in DOMAIN clients :
           /\ ~clients[c].enabled
           /\ clients[c].traffic_limit > 0
           /\ clients[c].upload = 0 /\ clients[c].download = 0
           /\ clients[d].upload + clients[d].download > 0

\* C19: the supervisor never raises to its caller: whatever the tables hold,
\* also an inbound whose stored settings are not JSON, every call of
\* start_xray() and restart_xray() returns (no caller is left by an exception
\* of the supervisor), and when POST /api/xray/start or /api/xray/restart
\* answers success=false no engine runs and no handle is kept.
C19_SupervisorNeverRaises ==
    /\ ev.op # "_check_and_disable_clients_error" => ev.status # 500
    /\ (ev.op \in {"api_xray_start", "api_xray_restart"} /\ ~ev.success) =>
           (xray_process = NoProcess /\ alive = {})

\* C20: POST /api/inbounds whose generated tag is the tag of a stored inbound
\* is answered with the conflict error (400, "Tag conflict"), inserts neither
\* an inbound nor a client, does not restart the engine, and leaves exactly one
\* inbound with that tag; in every state no two inbounds carry the same tag.
C20_TagConflictInsertsNothing ==
    /\ [][\A d \in CreateInputs, x \in Suffixes :
              (/\ api_create_inbound(d, x, TRUE)
               /\ \E i \in DOMAIN inbounds : inbounds[i].tag = Tag(d.protocol, d.port, x))
              => /\ ev'.status = 400
                 /\ ev'.restarts = 0 /\ ev'.commits = 0
                 /\ UNCHANGED <<db, supervisor>>
                 /\ Cardinality({i \in DOMAIN inbounds' :
                                    inbounds'[i].tag = Tag(d.protocol, d.port, x)}) = 1]_vars
    /\ [](\A i, j \in DOMAIN inbounds : inbounds[i].tag = inbounds[j].tag => i = j)

\* a creation was refused for its tag, next to the inbound that carries it
C20_Witness ==
    /\ ev.op = "api_create_inbound"
    /\ ev.status = 400
    /\ Cardinality(DOMAIN inbounds) = 1

\* ---------------------------------------------------------------------------
\* Properties of the repository

\* C21: a mutation that fails writes nothing. A handler given the id of no
\* inbound or of no client (update, toggle, add client, delete, reset) answers
\* 404, leaves the tables as they were and does not restart the engine; and a
\* creation of an inbound that does not end with success leaves the tables as
\* they were, so no inbound is stored without its first client.
C21_FailedMutationWritesNothing ==
    /\ [][\A i \in InboundIds : i \notin DOMAIN inbounds =>
              ((\/ \E d \in RepairInputs : api_update_inbound(i, d, TRUE)
                \/ api_toggle_inbound(i, TRUE)
                \/ api_add_client(i, ClientCreate("user", "", 0, 0), TRUE)
                \/ api_delete_inbound(i, TRUE))
               => (ev'.status = 404 /\ ev'.restarts = 0 /\ UNCHANGED <<db, supervisor>>))]_vars
    /\ [][\A c \in ClientIds : c \notin DOMAIN clients =>
              ((\/ \E d \in EnableInputs : api_update_client(c, d, TRUE)
                \/ api_delete_client(c, TRUE)
                \/ api_reset_client_traffic(c))
               => (ev'.status = 404 /\ ev'.restarts = 0 /\ UNCHANGED <<db, supervisor>>))]_vars
    /\ [][(ev'.op = "api_create_inbound" /\ ev'.status # 200) => UNCHANGED db]_vars

\* C22: in every state each client row names one inbound that is stored; a
\* client row appears only under a stored inbound, no step changes the
\* inbound_id of a client, and the delete of an inbound removes every client
\* that names it, in whatever order the handlers run.
C22_ClientsBelongToAnInbound ==
    /\ [](\A c \in DOMAIN clients : clients[c].inbound_id \in DOMAIN inbounds)
    /\ [][\A c \in DOMAIN clients' :
              IF c \in DOMAIN clients
              THEN clients'[c].inbound_id = clients[c].inbound_id
              ELSE clients'[c].inbound_id \in DOMAIN inbounds']_vars
    /\ [][\A i \in InboundIds :
              (api_delete_inbound(i, TRUE) /\ i \in DOMAIN inbounds) =>
                  /\ i \notin DOMAIN inbounds'
                  /\ DOMAIN clients' = {c \in DOMAIN clients : clients[c].inbound_id # i}]_vars

\* an inbound was deleted after clients had been stored, and none is left
C22_Witness ==
    /\ ev.op = "api_delete_inbound"
    /\ next_client_id > MaxClients
    /\ inbounds = EmptyTable
    /\ clients = EmptyTable

\* C23: in every state no two inbounds carry the same tag, and an inbound
\* keeps its id and its tag from its creation to its deletion: no update, no
\* edit that changes protocol or port, and no toggle changes them.
C23_TagsDistinctAndFixed ==
    /\ [](\A i, j \in DOMAIN inbounds : inbounds[i].tag = inbounds[j].tag => i = j)
    /\ [][\A i \in DOMAIN inbounds :
              /\ i \in DOMAIN inbounds' => inbounds'[i].tag = inbounds[i].tag
              /\ \A j \in DOMAIN inbounds' : inbounds'[j].tag = inbounds[i].tag => j = i]_vars

\* an inbound whose port and protocol were changed carries the tag of its creation
C23_Witness ==
    /\ ev.op \in {"api_update_inbound", "api_edit_inbound"}
    /\ ev.status = 200
    /\ \E i \in DOMAIN inbounds, x \in Suffixes :
           /\ inbounds[i].port = 8443
           /\ inbounds[i].tag = Tag("vless", 443, x)
           /\ inbounds[i].protocol = "trojan"

\* the repository after the two requests of the scenario: the Reality inbound
\* on port 443 and the client added to it, everything enabled
AfterScenario ==
    /\ DOMAIN inbounds = {1}
    /\ inbounds[1].enabled
    /\ inbounds[1].protocol = "vless" /\ inbounds[1].port = 443
    /\ inbounds[1].stream_settings.security = "reality"
    /\ next_client_id = 3
    /\ \A c \in DOMAIN clients : clients[c].enabled

\* the inbounds of the document but api-in
UserInbounds == SubSeq(Document.inbounds, 2, Len(Document.inbounds))

\* C24 as stated: after the creation of the Reality inbound and of one client
\* with expiry_days=0 and traffic_limit_gb=0 the document has one user inbound,
\* on port 443, whose client list has exactly one entry, with a flow field and
\* no expiry or quota field.
C24_OneEmbeddedClient ==
    AfterScenario =>
        /\ Len(UserInbounds) = 1
        /\ UserInbounds[1].port = 443
        /\ Len(UserInbounds[1].settings.clients) = 1
        /\ \A k \in DOMAIN UserInbounds[1].settings.clients :
               DOMAIN UserInbounds[1].settings.clients[k] = {"id", "email", "flow"}

\* C24, amended: the creation of a VLESS inbound stores a first client
\* ("default-user", with the flow of the body), so after the creation of the
\* Reality inbound and of one client the document has one user inbound, on port
\* 443 with the Reality block and its dest, whose client list has two entries:
\* the first client and the one added, each with the fields id, email and flow
\* and no expiry or quota field. The creation is answered 400 and stores nothing
\* while the binary that generates the keys is not installed.
C24_TwoEmbeddedClients ==
    /\ AfterScenario =>
           /\ Len(UserInbounds) = 1
           /\ UserInbounds[1].port = 443
           /\ UserInbounds[1].streamSettings.realitySettings.dest = "google.com:443"
           /\ UserInbounds[1].streamSettings.realitySettings.privateKey # ""
           /\ Len(UserInbounds[1].settings.clients) = 2
           /\ UserInbounds[1].settings.clients[1].email = "default-user"
           /\ UserInbounds[1].settings.clients[1].flow = "xtls-rprx-vision"
           /\ UserInbounds[1].settings.clients[2].email = "user"
           /\ \A k \in DOMAIN UserInbounds[1].settings.clients :
                  DOMAIN UserInbounds[1].settings.clients[k] = {"id", "email", "flow"}
           /\ \A c \in DOMAIN clients :
                  clients[c].expiry_time = 0 /\ clients[c].traffic_limit = 0
    /\ (ev.op = "api_create_inbound" /\ ev.status = 400 /\ ~bin_exists) =>
           inbounds = EmptyTable

\* the inbound and the client were created and the document was written
C24_Witness ==
    /\ AfterScenario
    /\ DOMAIN clients = {1, 2}
    /\ ev.op = "api_add_client"
    /\ ev.synth
    /\ config_file = Document

\* C25: the file is replaced only by a synthesis, as the whole document of the
\* tables of that moment, in a step that stops the engine that ran before;
\* whenever the engine is running the file is the one its process was spawned on,
\* and in the step that spawned it that file is the synthesis of the tables.
C25_RunningOnTheDocumentOnDisk ==
    /\ [](is_xray_running => (launched # NoFile /\ config_file = launched))
    /\ [][config_file' # config_file =>
              /\ ev'.synth
              /\ config_file' = Document'
              /\ signals' # <<>> \/ ~is_xray_running]_vars
    /\ [][(ev'.synth /\ is_xray_running') => launched' = Document']_vars

\* the engine runs on the file on disk while the settings table has changed
\* since its launch
C25_Witness ==
    /\ is_xray_running
    /\ launched = config_file
    /\ ev.op = "api_update_settings"
    /\ config_file # Document

\* C26: the shutdown cancels the task of the loop and stops the engine: the step
\* of the shutdown signals a running engine and leaves no handle and no engine
\* alive; while the application is shut down no engine is alive, and no step is
\* a pass of the reconciler or a call of restart_xray(): the only steps are the
\* next startup and the removal of the binary.
C26_ShutdownStopsLoopAndEngine ==
    /\ [](task = "cancelled" => (alive = {} /\ xray_process = NoProcess))
    /\ [][ev'.op = "lifespan_shutdown" =>
              /\ task' = "cancelled"
              /\ (is_xray_running => signals' # <<>>)]_vars
    /\ [][task = "cancelled" =>
              /\ ev'.op \in {"lifespan_startup", "xray_bin_removed"}
              /\ ev'.restarts = 0
              /\ ev'.op # "lifespan_startup" => UNCHANGED <<db, supervisor, task>>]_vars

\* the application shut down while an engine ran over a stored inbound
C26_Witness ==
    /\ task = "cancelled"
    /\ ev.op = "lifespan_shutdown"
    /\ signals # <<>>
    /\ DOMAIN inbounds # {}
    /\ alive = {}

\* C27: restart_xray() stops, then starts, and returns what start_xray() returned:
\* in every step of POST /api/xray/restart an engine that ran got SIGTERM first
\* and is gone afterwards, and the "success" of the answer is true exactly when
\* the step wrote the document of the tables and left one new engine running,
\* spawned on that document; when it is false no engine is alive and no handle
\* is tracked.
C27_RestartReturnsWhatStartReturns ==
    [][ev'.op = "api_xray_restart" =>
          /\ is_xray_running => (signals' # <<>> /\ signals'[1] = "terminate")
          /\ alive' \subseteq {xray_process'}
          /\ ev'.success <=> /\ xray_process' # NoProcess
                             /\ alive' = {xray_process'}
                             /\ ev'.synth
                             /\ config_file' = Document'
                             /\ launched' = config_file'
          /\ ~ev'.success => (xray_process' = NoProcess /\ alive' = {})]_vars

\* a restart over a running engine that returned true
C27_Witness ==
    /\ ev.op = "api_xray_restart"
    /\ ev.success
    /\ signals # <<>>
    /\ is_xray_running
    /\ launched = Document

\* C28: is_xray_running() is true exactly when a handle is tracked and its
\* process has not ended: it is false after stop_xray(), false after a
\* start_xray() or restart_xray() that returned false or raised, true after one
\* that returned true, and false once the process has ended on its own although
\* the handle still points at it.
C28_RunningIffTrackedAndAlive ==
    /\ [](is_xray_running <=> (xray_process # NoProcess /\ xray_process \in alive))
    /\ [][ev'.op \in {"api_xray_stop", "lifespan_shutdown"} => ~is_xray_running']_vars
    /\ [][ev'.op \in {"api_xray_start", "api_xray_restart"} =>
              (is_xray_running' <=> ev'.success)]_vars
    /\ [][ev'.op = "xray_exits" =>
              (is_xray_running /\ ~is_xray_running' /\ xray_process' = xray_process
               /\ xray_process' # NoProcess)]_vars

\* the engine ended on its own: the handle is still tracked and the status is false
C28_Witness ==
    /\ ev.op = "xray_exits"
    /\ xray_process # NoProcess
    /\ ~is_xray_running

\* the rules and the outbounds of the document synthesized from the tables
Baseline ==
    <<ApiRule>> \o (IF get_setting(settings, "block_bittorrent", "true") = "true"
                    THEN <<BittorrentRule>> ELSE <<>>)
Rules == Document.routing.rules
StoredRouting == get_setting(settings, "custom_routing_rules", EmptyText)

\* C29: whatever text custom_routing_rules holds, the synthesis does not raise
\* and writes the document; when the text is empty, is not JSON or is not a
\* list, the rules are exactly the baseline rules (the api rule, and the
\* bittorrent rule unless block_bittorrent is off); when it is a list, the rules
\* are the baseline rules followed by the rules of the list in their order.
C29_ExtraRulesAfterBaseline ==
    /\ StoredRouting \in {EmptyText, BrokenText} => Rules = Baseline
    /\ (StoredRouting \notin {EmptyText, BrokenText} /\ StoredRouting.val.t # "list")
           => Rules = Baseline
    /\ (StoredRouting \notin {EmptyText, BrokenText} /\ StoredRouting.val.t = "list")
           => Rules = Baseline \o StoredRouting.val.items
    /\ ev.op = "api_xray_restart" =>
           (ev.status = 200 /\ ev.success /\ ev.synth /\ config_file = Document)

\* the engine restarted over a custom_routing_rules that is not JSON
C29_Witness ==
    /\ ev.op = "api_xray_restart"
    /\ ev.success
    /\ StoredRouting = BrokenText
    /\ config_file.routing.rules = Baseline

Outs == Document.outbounds
StoredOutbounds == get_setting(settings, "custom_outbounds", EmptyText)
NotBaselineTag(o) == "tag" \notin DOMAIN o \/ o.tag \notin {"direct", "blocked"}
AllObjects(items) == \A k \in DOMAIN items : IsDict(items[k])

\* C30: the outbounds of the document begin with the two baseline outbounds,
\* direct and blocked, and no outbound after them has the tag direct or blocked;
\* when custom_outbounds is a list of objects, the outbounds after the baseline
\* are the objects of the list whose tag is not direct or blocked, in their
\* order; when it is empty, is not JSON or is an object, the outbounds are
\* exactly the two baseline outbounds; in no case does the synthesis raise.
C30_ExtraOutboundsAfterBaseline ==
    /\ Len(Outs) >= 2 /\ Outs[1] = DirectOutbound /\ Outs[2] = BlockedOutbound
    /\ \A k \in 3..Len(Outs) : IsDict(Outs[k]) /\ NotBaselineTag(Outs[k])
    /\ StoredOutbounds \in {EmptyText, BrokenText} =>
           Outs = <<DirectOutbound, BlockedOutbound>>
    /\ (StoredOutbounds \notin {EmptyText, BrokenText} /\ StoredOutbounds.val.t # "list") =>
           Outs = <<DirectOutbound, BlockedOutbound>>
    /\ (StoredOutbounds \notin {EmptyText, BrokenText} /\ StoredOutbounds.val.t = "list"
        /\ AllObjects(StoredOutbounds.val.items)) =>
           Outs = <<DirectOutbound, BlockedOutbound>>
                  \o SelectSeq(StoredOutbounds.val.items, NotBaselineTag)
    /\ ev.op = "api_xray_restart" =>
           (ev.status = 200 /\ ev.success /\ ev.synth /\ config_file = Document)

\* the engine restarted over a list that names direct and blocked again
C30_Witness ==
    /\ ev.op = "api_xray_restart"
    /\ ev.success
    /\ StoredOutbounds =
           json_dumps(JList(<<OtherDirect, ProxyOutbound, BlockedOutbound, UntaggedOutbound>>))
    /\ config_file.outbounds =
           <<DirectOutbound, BlockedOutbound, ProxyOutbound, UntaggedOutbound>>

BlockBittorrent == get_setting(settings, "block_bittorrent", "true") = "true"
ToBittorrent(r) == "protocol" \in DOMAIN r /\ r.protocol = <<"bittorrent">>

\* C31: the document has a rule that routes the bittorrent protocol to the
\* blocked outbound exactly when block_bittorrent is "true" or unset, whatever
\* custom_routing_rules, custom_outbounds and the WARP mode are; the rule is the
\* second one, directly after the api rule, and every rule of the operator
\* comes after it; without it the rules of the operator follow the api rule.
C31_BittorrentRuleFollowsTheSetting ==
    /\ Rules[1] = ApiRule
    /\ BlockBittorrent <=> (\E k \in DOMAIN Rules : ToBittorrent(Rules[k]))
    /\ BlockBittorrent =>
           /\ Rules[2] = BittorrentRule
           /\ Rules[2].outboundTag = "blocked"
           /\ \A k \in 3..Len(Rules) : ~ToBittorrent(Rules[k])
    /\ (StoredRouting \notin {EmptyText, BrokenText} /\ StoredRouting.val.t = "list") =>
           SubSeq(Rules, IF BlockBittorrent THEN 3 ELSE 2, Len(Rules))
               = StoredRouting.val.items

\* the engine restarted with the block turned off and two rules of the operator
C31_Witness ==
    /\ ev.op = "api_xray_restart"
    /\ ev.success
    /\ ~BlockBittorrent
    /\ config_file.routing.rules = <<ApiRule, PrivateRule, WhitelistRule>>

StoredDns == get_setting(settings, "custom_dns", EmptyText)
HasDns == "dns" \in DOMAIN Document
FallbackDns == JObject([servers |-> <<"1.1.1.1", "8.8.8.8">>])

\* C32 as stated: no dns section when custom_dns is empty, the parsed value
\* whenever it parses, the resolvers 1.1.1.1 and 8.8.8.8 when it is set and does
\* not parse.
C32_ParsedValueIsCarried ==
    /\ StoredDns = EmptyText => ~HasDns
    /\ StoredDns = BrokenText => (HasDns /\ Document.dns = FallbackDns)
    /\ StoredDns \notin {EmptyText, BrokenText} =>
           (HasDns /\ Document.dns = StoredDns.val)

\* C32, amended: the document has no dns section when custom_dns is empty or
\* parses to an empty value ({} or []); it carries the parsed value when that
\* value is not empty, and the resolvers 1.1.1.1 and 8.8.8.8 when custom_dns
\* is set and does not parse; a restart never fails because of the setting.
C32_NonEmptyParsedValueIsCarried ==
    /\ StoredDns = EmptyText => ~HasDns
    /\ StoredDns = BrokenText => (HasDns /\ Document.dns = FallbackDns)
    /\ (StoredDns \notin {EmptyText, BrokenText} /\ Truthy(StoredDns.val)) =>
           (HasDns /\ Document.dns = StoredDns.val)
    /\ (StoredDns \notin {EmptyText, BrokenText} /\ ~Truthy(StoredDns.val)) => ~HasDns
    /\ ev.op = "api_xray_restart" =>
           /\ ev.status = 200 /\ ev.synth /\ config_file = Document
           /\ "dns" \in DOMAIN config_file <=> HasDns

\* the engine restarted over a custom_dns that is not JSON
C32_Witness ==
    /\ ev.op = "api_xray_restart"
    /\ ev.success
    /\ StoredDns = BrokenText
    /\ config_file.dns = FallbackDns

\* the clients a step has added
NewClients == (DOMAIN clients') \ (DOMAIN clients)

\* C33: a creation that stored the inbound and completed stores the inbound
\* enabled; for vless, vmess and trojan it stores exactly one client with it,
\* owned by the new inbound, enabled, with expiry 0, quota 0 and counters 0,
\* named by client_name, or default-user when the body gives none; for
\* shadowsocks it stores no client; no other row of either table changes.
C33_CreationStoresOneClient ==
    [][\A d \in CreationInputs, x \in Suffixes, ok \in BOOLEAN :
          (api_create_inbound(d, x, ok) /\ ev'.status = 200) =>
              /\ DOMAIN inbounds' = DOMAIN inbounds \cup {next_inbound_id}
              /\ next_inbound_id \notin DOMAIN inbounds
              /\ inbounds'[next_inbound_id].enabled
              /\ inbounds'[next_inbound_id].protocol = d.protocol
              /\ \A i \in DOMAIN inbounds : inbounds'[i] = inbounds[i]
              /\ \A c \in DOMAIN clients : c \in DOMAIN clients' /\ clients'[c] = clients[c]
              /\ d.protocol = "shadowsocks" => NewClients = {}
              /\ d.protocol \in {"vless", "vmess", "trojan"} =>
                     /\ Cardinality(NewClients) = 1
                     /\ \A c \in NewClients :
                            /\ clients'[c].inbound_id = next_inbound_id
                            /\ clients'[c].enabled
                            /\ clients'[c].expiry_time = 0
                            /\ clients'[c].traffic_limit = 0
                            /\ clients'[c].upload = 0 /\ clients'[c].download = 0
                            /\ clients'[c].email =
                                   IF d.client_name = "" THEN "default-user"
                                   ELSE d.client_name]_vars

\* a trojan inbound was created with a client_name
C33_Witness ==
    /\ ev.op = "api_create_inbound"
    /\ ev.status = 200
    /\ DOMAIN inbounds = {1}
    /\ inbounds[1].protocol = "trojan"
    /\ inbounds[1].enabled
    /\ DOMAIN clients = {1}
    /\ clients[1].email = "alice"
    /\ clients[1].enabled

IsWarp(o) == "tag" \in DOMAIN o /\ o.tag = "warp"
IsToWarp(r) == "outboundTag" \in DOMAIN r /\ r.outboundTag = "warp"
WarpOutboundsOf(doc) == Len(SelectSeq(doc.outbounds, IsWarp))
WarpRulesOf(doc) == Len(SelectSeq(doc.routing.rules, IsToWarp))

\* C34: whatever saves of the WARP mode and restarts came before, the document
\* synthesized from the tables, and the file on disk, have at most one outbound
\* tagged warp and at most one rule to warp; after a save of the mode off the
\* document has neither, and so has the file when the save restarted the
\* engine; after a save of another mode that was answered 200 the document has
\* exactly one outbound tagged warp.
C34_AtMostOneWarp ==
    /\ WarpOutboundsOf(Document) <= 1 /\ WarpRulesOf(Document) <= 1
    /\ config_file # NoFile =>
           (WarpOutboundsOf(config_file) <= 1 /\ WarpRulesOf(config_file) <= 1)
    /\ (ev.op = "api_warp_save" /\ settings["warp_mode"] = "off") =>
           /\ WarpOutboundsOf(Document) = 0 /\ WarpRulesOf(Document) = 0
           /\ ev.synth => (WarpOutboundsOf(config_file) = 0 /\ WarpRulesOf(config_file) = 0)
    /\ (ev.op = "api_warp_save" /\ ev.status = 200 /\ settings["warp_mode"] # "off") =>
           WarpOutboundsOf(Document) = 1

\* the mode off was saved and the engine restarted on a file without WARP
C34_Witness ==
    /\ ev.op = "api_warp_save"
    /\ ev.status = 200
    /\ ev.synth
    /\ settings["warp_mode"] = "off"
    /\ settings["custom_outbounds"] = json_dumps(JList(<<DirectOutbound, BlockedOutbound>>))
    /\ WarpOutboundsOf(config_file) = 0

-----------------------------------------------------------------------------
(* tg_bot.py: the handlers of an update.  A handler works on the record of
   what it reads and writes: the conversations, the users table, the settings
   table, and the calls it made. *)

BotState == [states |-> _user_states, users |-> users, settings |-> settings,
             done |-> NoCalls]

\* dict.pop(key, None)
pop(d, key) == [k \in (DOMAIN d) \ {key} |-> d[k]]

\* dict.get(key, default)
get(d, key, default) == IF key \in DOMAIN d THEN d[key] ELSE default

\* the dict of a conversation is changed in place
SetState(b, chat_id, state) == [b EXCEPT !.states = SetKey(b.states, chat_id, state)]

Raise(b) == [b EXCEPT !.done.raised = TRUE]

\* what the call a handler makes does: create_inbound returns a result with
\* success or with an error, and it or the database raises
Outcomes == {"success", "error", "raised"}

_is_admin_any(sts, chat_id) == TRUE

_is_admin(sts, chat_id) == ToString(chat_id) = get_setting(sts, "tg_chat_id", "")

\* _cmd_status and _cmd_list read the tables and send a message
_cmd_status(b, outcome) == IF outcome = "raised" THEN Raise(b) ELSE b

_cmd_list(b, outcome) == IF outcome = "raised" THEN Raise(b) ELSE b

_cmd_create_preset(b, chat_id, preset_name) ==
    IF preset_name \notin DOMAIN PRESETS THEN b
    ELSE SetState(b, chat_id, [action |-> "create_ib_port", preset |-> preset_name])

_cmd_chpass_start(b, chat_id) == SetState(b, chat_id, [action |-> "chpass_old"])

_cmd_chport_start(b, chat_id) == SetState(b, chat_id, [action |-> "chport"])

_ask_sni(b, chat_id, state) == SetState(b, chat_id, SetKey(state, "action", "create_ib_sni"))

_ask_fingerprint(b, chat_id, state) ==
    SetState(b, chat_id, SetKey(state, "action", "create_ib_fp"))

_cb_dest(b, chat_id, value) ==
    LET state == get(b.states, chat_id, EmptyTable)
    IN IF state = EmptyTable \/ ~startswith(get(state, "action", ""), "create_ib_dest")
       THEN b
       ELSE IF value = "custom"
       THEN SetState(b, chat_id, SetKey(state, "action", "create_ib_dest_custom"))
       ELSE _ask_sni(b, chat_id,
                     SetKey(SetKey(state, "dest", value), "sni", SplitFirst(value, ":")))

_cb_fingerprint(b, chat_id, value) ==
    LET state == get(b.states, chat_id, EmptyTable)
    IN IF state = EmptyTable \/ get(state, "action", "") # "create_ib_fp" THEN b
       ELSE SetState(b, chat_id,
                     SetKey(SetKey(state, "fingerprint", value), "action", "create_ib_remark"))

\* the keyword arguments of the call of create_inbound
Kwargs(state, client_name) ==
    LET p == PRESETS[get(state, "preset", "speed")]
        common == [protocol |-> p.protocol, port |-> state["port"],
                   remark |-> get(state, "remark", ""), network |-> p.network,
                   security |-> p.security, flow |-> p.flow, client_name |-> client_name]
    IN IF p.security = "reality"
       THEN common @@ [reality_dest |-> get(state, "dest", "google.com:443"),
                       reality_server_names |-> get(state, "sni", "google.com"),
                       reality_fingerprint |-> get(state, "fingerprint", "chrome")]
       ELSE IF p.security = "tls"
       THEN common @@ [tls_server_name |-> get(state, "tls_sni", "")]
       ELSE common

_do_create_inbound_keep(b, chat_id, state, client_name, outcome) ==
    LET call == [kwargs |-> Kwargs(state, client_name), outcome |-> outcome]
        called == [b EXCEPT !.done.create_inbound = Append(@, call)]
    IN IF call.outcome = "success" THEN [called EXCEPT !.states = pop(@, chat_id)]
       ELSE called

\* the call either returns a result with success, returns one with an error,
\* or raises; the conversation is dropped after each of them
_do_create_inbound(b, chat_id, state, client_name, outcome) ==
    LET call == [kwargs |-> Kwargs(state, client_name), outcome |-> outcome]
        called == [b EXCEPT !.done.create_inbound = Append(@, call)]
    IN [called EXCEPT !.states = pop(@, chat_id)]

PortOf(text) ==
    LET port == int(text)
    IN IF port.ok /\ port.val >= 1 /\ port.val <= 65535 THEN port
       ELSE [ok |-> FALSE, val |-> 0]

chpass_old_unverified(b, chat_id, text, state, outcome) ==
    IF outcome = "raised" THEN Raise(b)
    ELSE SetState(b, chat_id,
                  SetKey(SetKey(state, "username", "admin"), "action", "chpass_new"))

chpass_old(b, chat_id, text, state, outcome) ==
    IF outcome = "raised" THEN Raise(b)
    ELSE LET found == {u \in DOMAIN b.users : b.users[u] = hash_password(text)}
         IN IF found = {} THEN b
            ELSE LET user == CHOOSE u \in found : TRUE
                 IN SetState(b, chat_id,
                             SetKey(SetKey(state, "username", user), "action", "chpass_new"))

chpass_new(b, chat_id, text, state, outcome) ==
    IF Len(text) < 4 THEN b
    ELSE IF outcome = "raised" THEN Raise(b)
    ELSE LET stored == [b EXCEPT !.users = [u \in DOMAIN b.users |->
                                    IF u = state["username"] THEN hash_password(text)
                                    ELSE b.users[u]],
                                 !.done.password_update =
                                    Append(@, [username |-> state["username"],
                                               password |-> text])]
         IN [stored EXCEPT !.states = pop(@, chat_id)]

chport(b, chat_id, text) ==
    LET port == PortOf(text)
    IN IF ~port.ok THEN b
       ELSE [b EXCEPT !.settings = set_setting(@, "panel_port", ToString(port.val)),
                      !.done.set_setting = Append(@, <<"panel_port", ToString(port.val)>>),
                      !.states = pop(@, chat_id)]

create_ib_port_any(b, chat_id, text, state) ==
    LET port == int(text)
        security == PRESETS[get(state, "preset", "speed")].security
        next == IF security = "reality" THEN "create_ib_dest"
                ELSE IF security = "tls" THEN "create_ib_tls_sni"
                ELSE "create_ib_remark"
    IN IF ~port.ok THEN b
       ELSE SetState(b, chat_id, SetKey(SetKey(state, "port", port.val), "action", next))

create_ib_port(b, chat_id, text, state) ==
    LET port == PortOf(text)
        security == PRESETS[get(state, "preset", "speed")].security
        next == IF security = "reality" THEN "create_ib_dest"
                ELSE IF security = "tls" THEN "create_ib_tls_sni"
                ELSE "create_ib_remark"
    IN IF ~port.ok THEN b
       ELSE SetState(b, chat_id, SetKey(SetKey(state, "port", port.val), "action", next))

create_ib_dest_custom(b, chat_id, text, state) ==
    LET dest == IF Contains(strip(text), ":") THEN strip(text) ELSE strip(text) \o ":443"
    IN _ask_sni(b, chat_id,
                SetKey(SetKey(state, "dest", dest), "sni", SplitFirst(dest, ":")))

create_ib_sni(b, chat_id, text, state) ==
    _ask_fingerprint(b, chat_id,
                     IF text # "-" THEN SetKey(state, "sni", strip(text)) ELSE state)

create_ib_tls_sni(b, chat_id, text, state) ==
    SetState(b, chat_id,
             SetKey(SetKey(state, "tls_sni", strip(text)), "action", "create_ib_remark"))

create_ib_remark(b, chat_id, text, state) ==
    SetState(b, chat_id, SetKey(SetKey(state, "remark", text), "action", "create_ib_client"))

_handle_state(b, chat_id, text, state, outcome) ==
    LET action == get(state, "action", "")
    IN CASE action = "create_ib_port" -> create_ib_port(b, chat_id, text, state)
         [] action = "create_ib_dest_custom" -> create_ib_dest_custom(b, chat_id, text, state)
         [] action = "create_ib_sni" -> create_ib_sni(b, chat_id, text, state)
         [] action = "create_ib_tls_sni" -> create_ib_tls_sni(b, chat_id, text, state)
         [] action = "create_ib_remark" -> create_ib_remark(b, chat_id, text, state)
         [] action = "create_ib_client" ->
                _do_create_inbound(b, chat_id, state, IF text = "-" THEN "" ELSE text, outcome)
         [] action = "chpass_old" -> chpass_old(b, chat_id, text, state, outcome)
         [] action = "chpass_new" -> chpass_new(b, chat_id, text, state, outcome)
         [] action = "chport" -> chport(b, chat_id, text)
         [] OTHER -> b

_handle_callback(b, cb, outcome) ==
    LET chat_id == cb.chat
        data == cb.data
    IN IF ~_is_admin(b.settings, chat_id) THEN b
       ELSE IF data = "status" THEN _cmd_status(b, outcome)
       ELSE IF data = "list" THEN _cmd_list(b, outcome)
       ELSE IF data = "create_ib" THEN b
       ELSE IF startswith(data, "preset_")
       THEN _cmd_create_preset(b, chat_id, replace(data, "preset_"))
       ELSE IF startswith(data, "dest_") THEN _cb_dest(b, chat_id, replace(data, "dest_"))
       ELSE IF startswith(data, "fp_") THEN _cb_fingerprint(b, chat_id, replace(data, "fp_"))
       ELSE IF data = "chpass" THEN _cmd_chpass_start(b, chat_id)
       ELSE IF data = "chport" THEN _cmd_chport_start(b, chat_id)
       ELSE IF data = "menu" THEN [b EXCEPT !.states = pop(@, chat_id)]
       ELSE b

_handle_update(b, update, outcome) ==
    IF update.kind = "callback_query" THEN _handle_callback(b, update, outcome)
    ELSE IF update.text = "" THEN b
    ELSE IF ~_is_admin(b.settings, update.chat) THEN b
    ELSE LET chat_id == update.chat
             text == strip(update.text)
             state == get(b.states, chat_id, EmptyTable)
         IN IF text = "/start" \/ text = "/menu" THEN [b EXCEPT !.states = pop(@, chat_id)]
            ELSE IF text = "/cancel" THEN [b EXCEPT !.states = pop(@, chat_id)]
            ELSE IF text = "/status" THEN _cmd_status(b, outcome)
            ELSE IF text = "/list" THEN _cmd_list(b, outcome)
            ELSE IF text = "/help" THEN b
            ELSE IF state # EmptyTable THEN _handle_state(b, chat_id, text, state, outcome)
            ELSE b

\* The texts and the buttons the chats send.
Texts == {"/start", " /menu", "/cancel", "/status", "/list", "/help",
          "443", "0", "port", "-", InitialPassword}
Buttons == {"status", "list", "create_ib", "preset_speed", "preset_streaming",
            "preset_none", "dest_google.com:443", "dest_custom", "fp_chrome",
            "chpass", "chport", "menu"}
Updates ==
    {[kind |-> "message", chat |-> c, text |-> t] : c \in Chats, t \in Texts \cup {""}}
    \cup {[kind |-> "callback_query", chat |-> c, data |-> d] : c \in Chats, d \in Buttons}

\* the step the conversation of a chat is at
Step(states, chat_id) == get(get(states, chat_id, EmptyTable), "action", "")

\* line 116: _poll_loop hands an update to _handle_update
handle_update(update, outcome) ==
    LET b == _handle_update(BotState, update, outcome)
    IN /\ _user_states' = b.states
       /\ users' = b.users
       /\ settings' = b.settings
       /\ calls' = [b.done EXCEPT !.chat = update.chat]

Frame == UNCHANGED <<inbounds, clients, next_inbound_id, next_client_id, supervisor,
                     bin_exists, now, task, ev>>

InitBot ==
    /\ inbounds = EmptyTable
    /\ clients = EmptyTable
    /\ settings = set_setting(set_setting(EmptyTable, "tg_bot_token", BotToken),
                              "tg_chat_id", ToString(AdminChat))
    /\ next_inbound_id = 1
    /\ next_client_id = 1
    /\ xray_process = NoProcess
    /\ alive = {}
    /\ bin_exists = TRUE
    /\ config_file = NoFile
    /\ launched = NoFile
    /\ signals = <<>>
    /\ hung = FALSE
    /\ task = "sleeping"
    /\ now = 0
    /\ ev = Event("init", 0, 0, FALSE, 0, {})
    /\ SelfRayBot

NextDialog ==
    \E update \in Updates, outcome \in Outcomes :
        handle_update(update, outcome) /\ Frame /\ UNCHANGED polling

SpecDialog == InitBot /\ [][NextDialog]_vars


-----------------------------------------------------------------------------
(* The bot: who may use it *)

\* the handler invoked none of create_inbound, set_setting, the password update
NothingInvoked(done) ==
    /\ done.create_inbound = <<>>
    /\ done.set_setting = <<>>
    /\ done.password_update = <<>>

\* C35: an update, a text or a button, of a chat whose id is not the configured
\* admin chat id creates and changes no conversation, and its handler invokes
\* none of create_inbound, set_setting and the password update.
C35_OtherChatsChangeNothing ==
    [][calls'.chat # AdminChat
           => /\ _user_states' = _user_states
              /\ NothingInvoked(calls')
              /\ users' = users
              /\ settings' = settings]_vars

\* the other chat writes while the admin chat is in the middle of a wizard
C35_Witness ==
    /\ calls.chat = OtherChat
    /\ Step(_user_states, AdminChat) = "create_ib_client"

-----------------------------------------------------------------------------
(* The bot: the wizard that creates an inbound *)

Conversation(states) == get(states, AdminChat, EmptyTable)
Message(text) == [kind |-> "message", chat |-> AdminChat, text |-> text]
Button(data) == [kind |-> "callback_query", chat |-> AdminChat, data |-> data]

ValidPorts == 1..65535
\* the texts of Texts that are neither a command nor the decimal of a valid port
InvalidPortTexts == {"0", "port", "-", InitialPassword}
DestSteps == {"create_ib_dest", "create_ib_dest_custom"}
DestButtons == {"dest_google.com:443", "dest_custom"}
FingerprintButtons == {"fp_chrome"}
SecurityOf(state) == PRESETS[state["preset"]].security

\* a step of the wizard is entered from the step before it only
InOrder(before, after) ==
    LET from == get(before, "action", "")
        to == get(after, "action", "")
    IN (to # from /\ to # "") =>
          CASE to = "create_ib_port" -> after["preset"] \in DOMAIN PRESETS
            [] to = "create_ib_dest" ->
                   /\ from = "create_ib_port"
                   /\ SecurityOf(after) = "reality"
                   /\ after["port"] \in ValidPorts
            [] to = "create_ib_tls_sni" ->
                   /\ from = "create_ib_port"
                   /\ SecurityOf(after) = "tls"
                   /\ after["port"] \in ValidPorts
            [] to = "create_ib_dest_custom" -> from = "create_ib_dest"
            [] to = "create_ib_sni" -> from \in DestSteps /\ "dest" \in DOMAIN after
            [] to = "create_ib_fp" -> from = "create_ib_sni" /\ "sni" \in DOMAIN after
            [] to = "create_ib_remark" ->
                   \/ from = "create_ib_fp" /\ "fingerprint" \in DOMAIN after
                   \/ from = "create_ib_tls_sni" /\ "tls_sni" \in DOMAIN after
            [] to = "create_ib_client" -> from = "create_ib_remark" /\ "remark" \in DOMAIN after
            [] OTHER -> TRUE

\* C36: create_inbound is invoked from the step create_ib_client only, with the
\* preset and the port (in 1..65535) the conversation holds; the steps follow
\* each other in the order port, then dest, SNI and fingerprint (reality) or TLS
\* server name (tls), then remark, then client name; a text that is no valid
\* port leaves the conversation at the port step as it was; a dest button
\* outside the dest step and a fingerprint button outside the fingerprint step
\* change nothing.
C36_WizardInOrder ==
    [][LET before == Conversation(_user_states)
           after == Conversation(_user_states')
           step == get(before, "action", "")
       IN /\ calls'.create_inbound # <<>> =>
                 /\ step = "create_ib_client"
                 /\ Len(calls'.create_inbound) = 1
                 /\ before["preset"] \in DOMAIN PRESETS
                 /\ calls'.create_inbound[1].kwargs.port = before["port"]
                 /\ before["port"] \in ValidPorts
                 /\ calls'.create_inbound[1].kwargs.security = SecurityOf(before)
          /\ InOrder(before, after)
          /\ step = "create_ib_port" =>
                 \A text \in InvalidPortTexts, outcome \in Outcomes :
                     handle_update(Message(text), outcome) => after = before
          /\ (after # before /\ step \notin DestSteps) =>
                 \A data \in DestButtons, outcome \in Outcomes :
                     ~handle_update(Button(data), outcome)
          /\ (after # before /\ step # "create_ib_fp") =>
                 \A data \in FingerprintButtons, outcome \in Outcomes :
                     ~handle_update(Button(data), outcome)]_vars

\* an inbound of a reality preset was created with a dest typed in by hand
C36_Witness ==
    /\ calls.create_inbound # <<>>
    /\ calls.create_inbound[1].kwargs.security = "reality"
    /\ calls.create_inbound[1].kwargs.reality_dest = "port:443"
    /\ calls.create_inbound[1].kwargs.port = 443

-----------------------------------------------------------------------------
(* The bot: how a conversation ends *)

ResetUpdates == {Message("/start"), Message(" /menu"), Message("/cancel"), Button("menu")}

\* C37: /start, /menu, /cancel and the menu button remove the conversation of
\* the chat at every step; a call of create_inbound, whatever it returns or
\* raises, removes it too; and a text sent to a chat without a conversation
\* changes nothing and invokes nothing.
C37_ResetRemovesTheConversation ==
    [][/\ AdminChat \in DOMAIN _user_states' =>
              /\ calls'.create_inbound = <<>>
              /\ \A update \in ResetUpdates, outcome \in Outcomes :
                     ~handle_update(update, outcome)
       /\ (/\ AdminChat \notin DOMAIN _user_states
           /\ \/ _user_states' # _user_states
              \/ ~NothingInvoked(calls')
              \/ users' # users
              \/ settings' # settings) =>
              \A text \in Texts, outcome \in Outcomes :
                  ~handle_update(Message(text), outcome)]_vars

\* create_inbound raised at the last step of the wizard and the conversation is gone
C37_Witness ==
    /\ calls.create_inbound # <<>>
    /\ calls.create_inbound[1].outcome = "raised"
    /\ AdminChat \notin DOMAIN _user_states

-----------------------------------------------------------------------------
(* The bot: the change of the password *)

Commands == {"/start", "/menu", "/cancel", "/status", "/list", "/help"}
\* the texts the steps of a wizard get to see
Inputs == {text \in Texts : strip(text) \notin Commands}
IsPassword(table, text) == \E u \in DOMAIN table : table[u] = hash_password(text)

\* C38: the users table changes only at the step chpass_new, to the hash of the
\* text sent, of 4 characters or more, for the user found at chpass_old; the
\* step chpass_new is entered only from chpass_old of the same chat by the text
\* that is the password of that user; a text that is no password at chpass_old
\* and a text under 4 characters at chpass_new leave the users table and the
\* conversation as they were.
C38_PasswordChangeIsVerified ==
    [][LET before == Conversation(_user_states)
           after == Conversation(_user_states')
           step == get(before, "action", "")
       IN /\ users' # users =>
                 /\ step = "chpass_new"
                 /\ Len(calls'.password_update) = 1
                 /\ calls'.password_update[1].username = before["username"]
                 /\ Len(calls'.password_update[1].password) >= 4
                 /\ users' = [users EXCEPT ![before["username"]] =
                                  hash_password(calls'.password_update[1].password)]
          /\ calls'.password_update # <<>> => step = "chpass_new"
          /\ (get(after, "action", "") = "chpass_new" /\ step # "chpass_new") =>
                 /\ step = "chpass_old"
                 /\ after["username"] \in DOMAIN users
                 /\ \A text \in Inputs, outcome \in Outcomes :
                        handle_update(Message(text), outcome) =>
                            users[after["username"]] = hash_password(text)
          /\ step = "chpass_old" =>
                 \A text \in Inputs, outcome \in Outcomes :
                     (handle_update(Message(text), outcome) /\ ~IsPassword(users, text))
                         => (users' = users /\ after = before)
          /\ step = "chpass_new" =>
                 \A text \in Inputs, outcome \in Outcomes :
                     (handle_update(Message(text), outcome) /\ Len(text) < 4)
                         => (users' = users /\ after = before)]_vars

\* the password was changed, after the old one was given at chpass_old
C38_Witness ==
    /\ calls.password_update # <<>>
    /\ users["admin"] = hash_password("port")
    /\ users["admin"] # hash_password(InitialPassword)

-----------------------------------------------------------------------------
(* tg_bot.py: start(), stop() and the threads that run _poll_loop *)

Threads == 1..MaxThreads

\* what the chats send while the bot polls
Arrivals == {Message("/status"), Button("chport"), Message("443")}

Max(a, b) == IF a >= b THEN a ELSE b

Ids(lo, hi) == [i \in 1..(IF hi >= lo THEN hi - lo + 1 ELSE 0) |-> lo + i - 1]

self_token == get_setting(settings, "tg_bot_token", "")
self_chat_id == get_setting(settings, "tg_chat_id", "")

\* a chat sends a text or presses a button; Telegram numbers the update
telegram_update(update) ==
    /\ Len(updates) < MaxUpdates
    /\ updates' = Append(updates, update)
    /\ handled' = Append(handled, 0)
    /\ UNCHANGED <<_offset, _running, threads, confirmed, dialog, settings>>

start ==
    IF _running \/ self_token = "" \/ self_chat_id = ""
    THEN UNCHANGED <<polling, dialog, settings>>
    ELSE /\ \E t \in Threads : t \notin DOMAIN threads
         /\ LET t == CHOOSE n \in Threads :
                         /\ n \notin DOMAIN threads
                         /\ \A m \in Threads : m < n => m \in DOMAIN threads
            IN threads' = SetKey(threads, t, [pc |-> "while", offset |-> 0, batch |-> <<>>])
         /\ _running' = TRUE
         /\ UNCHANGED <<_offset, updates, confirmed, handled, dialog, settings>>

stop ==
    /\ _running' = FALSE
    /\ UNCHANGED <<_offset, threads, updates, confirmed, handled, dialog, settings>>

At(t, pc) == t \in DOMAIN threads /\ threads[t].pc = pc

\* Telegram answers a pending getUpdates with 409 Conflict when another one
\* comes in: the request is marked by the pc "conflict"
Terminated(ths) ==
    [t \in DOMAIN ths |-> IF ths[t].pc = "getUpdates"
                          THEN [ths[t] EXCEPT !.pc = "conflict"] ELSE ths[t]]

\* lines 105-110: the test of the loop, and the request of getUpdates
poll_while(t) ==
    /\ At(t, "while")
    /\ IF ~_running
       THEN /\ threads' = pop(threads, t)
            /\ UNCHANGED confirmed
       ELSE IF self_token = ""
       THEN UNCHANGED <<threads, confirmed>>
       ELSE /\ threads' = SetKey(Terminated(threads), t,
                                 [pc |-> "getUpdates", offset |-> _offset, batch |-> <<>>])
            /\ confirmed' = Max(confirmed, _offset - 1)
    /\ UNCHANGED <<_offset, _running, updates, handled, dialog, settings>>

\* lines 110-114: the answer, with the updates from the offset on that
\* Telegram still holds, or no answer
poll_getUpdates(t, ok) ==
    /\ At(t, "getUpdates") \/ (At(t, "conflict") /\ ~ok)
    /\ LET batch == Ids(Max(Max(threads[t].offset, confirmed + 1), 1), Len(updates))
       IN threads' = SetKey(threads, t,
                        IF ok /\ batch # <<>>
                        THEN [pc |-> "for", offset |-> threads[t].offset, batch |-> batch]
                        ELSE [pc |-> "while", offset |-> 0, batch |-> <<>>])
    /\ UNCHANGED <<_offset, _running, updates, confirmed, handled, dialog, settings>>

\* line 115
poll_for(t) ==
    /\ At(t, "for")
    /\ _offset' = Head(threads[t].batch) + 1
    /\ threads' = SetKey(threads, t, [threads[t] EXCEPT !.pc = "handle"])
    /\ UNCHANGED <<_running, updates, confirmed, handled, dialog, settings>>

\* lines 116-119: an exception of the handler ends the for statement
poll_handle(t, outcome) ==
    /\ At(t, "handle")
    /\ LET update_id == Head(threads[t].batch)
           rest == Tail(threads[t].batch)
       IN /\ handle_update(updates[update_id], outcome)
          /\ handled' = [handled EXCEPT ![update_id] = @ + 1]
          /\ threads' = SetKey(threads, t,
                           IF calls'.raised \/ rest = <<>>
                           THEN [pc |-> "while", offset |-> 0, batch |-> <<>>]
                           ELSE [pc |-> "for", offset |-> threads[t].offset,
                                 batch |-> rest])
    /\ UNCHANGED <<_offset, _running, updates, confirmed>>

NextPolling ==
    \/ start /\ Frame
    \/ stop /\ Frame
    \/ \E update \in Arrivals : telegram_update(update) /\ Frame
    \/ \E t \in Threads : poll_while(t) /\ Frame
    \/ \E t \in Threads, ok \in BOOLEAN : poll_getUpdates(t, ok) /\ Frame
    \/ \E t \in Threads : poll_for(t) /\ Frame
    \/ \E t \in Threads, outcome \in Outcomes : poll_handle(t, outcome) /\ Frame

SpecPolling == InitBot /\ [][NextPolling]_vars


-----------------------------------------------------------------------------
(* The bot: one loop, each update once *)

Polling == DOMAIN threads
HandledOnce == \A update_id \in DOMAIN handled : handled[update_id] <= 1

\* C39: whatever calls of start() and stop() were made, at most one thread
\* runs _poll_loop, and _handle_update ran at most once on each update.
C39_OneLoopEachUpdateOnce ==
    /\ Cardinality(Polling) <= 1
    /\ HandledOnce

\* C39, its first part after the bot was started again: while _running is true
\* at most one thread runs _poll_loop.
C39_OneLoopWhileRunning == _running => Cardinality(Polling) <= 1

\* C39, its second part alone
C39_EachUpdateOnce == HandledOnce

\* C39, the part on the offset: it is past an update when the handler of the
\* update starts.
C39_OffsetPastTheUpdateHandled ==
    \A t \in Polling : threads[t].pc = "handle" => _offset > Head(threads[t].batch)

\* C39 for the runs in which start() never found a thread of an earlier start()
\* alive: each update is handled at most once and the offset is past the
\* update handled.
C39_WithOneLoop ==
    [](Cardinality(Polling) <= 1) => [](HandledOnce /\ C39_OffsetPastTheUpdateHandled)

\* C39, the offset never decreases
C39_OffsetNeverDecreases == [][_offset' >= _offset]_vars

====
